---- MODULE Spec2Model ----
(***************************************************************************)
(* Password hashing core of the veterinary_diagnostics auth service:       *)
(* Argon2Hasher (Bouncy Castle variant and argon2-jvm variant), the        *)
(* Credential entity, the NestJS AuthService over UsersService, and the    *)
(* DatabaseService over its connection pool.                               *)
(*                                                                         *)
(* A Java String is a sequence of one-character strings; a Java byte is an *)
(* integer in -128..127; a Java int is an integer in -2^31..2^31-1.        *)
(* A call ends in an outcome: a returned value or a thrown exception.      *)
(***************************************************************************)
EXTENDS Integers, Sequences, FiniteSets, TLC

VARIABLES
    stored,     \* the hash string held for a user, with how it came about
    call,       \* the last call made on the hasher and its outcome
    earlier,    \* the hash string that `stored` replaced
    expectedBytes, \* constantTimeEquals: the bytes from storage
    actualBytes, \* constantTimeEquals: the bytes just derived
    equal,      \* constantTimeEquals: its result
    loop,       \* constantTimeEquals: where its loop is, statement by statement
    heap,       \* the Credential instances built so far, by reference
    made,       \* for each instance, the call that built it
    clock,      \* the latest reading of Instant.now()
    lastCall,   \* the last call made on a credential and its outcome
    pc,         \* for each thread, where it is in its call on the hasher
    frame,      \* for each thread, the arguments and locals of its call
    randomState, \* the state of the shared SecureRandom
    generators, \* the Argon2BytesGenerator objects and what init gave them
    users,      \* UsersService: the users array
    secrets,    \* for each user, the password given at registration
    session,    \* AuthService: the last request and its outcome
    issued,     \* the payloads jwtService.sign has signed
    pool,       \* DatabaseService: the pg Pool and its clients
    task        \* for each caller of DatabaseService, where it is

equalsVars == <<expectedBytes, actualBytes, equal, loop>>
credentialVars == <<heap, made, clock, lastCall>>
threadVars == <<pc, frame, randomState, generators>>
authVars == <<users, secrets, session, issued>>
databaseVars == <<pool, task>>
serviceVars == <<authVars, databaseVars>>

vars == <<stored, call, earlier, equalsVars, credentialVars, threadVars, serviceVars>>

\* what the calls on the hasher leave alone
outsideHasher == <<earlier, equalsVars, credentialVars, threadVars, serviceVars>>

(***************************************************************************)
(* Bounds of the model                                                     *)
(***************************************************************************)
\* longest password drawn letter by letter
MaxPwLen == 1
\* number of distinct salts the randomness source can produce in the model
NumSalts == 2

(***************************************************************************)
(* Policy constants of Argon2Hasher                                        *)
(***************************************************************************)
ITERATIONS == 3
MEMORY == 65536
PARALLELISM == 4
HASH_LENGTH == 32
SALT_LENGTH == 16
\* Argon2Parameters.ARGON2_VERSION_13 (0x13)
ARGON2_VERSION_13 == 19
\* Argon2Parameters.ARGON2_id
ARGON2_id == 2
\* argon2-jvm variant
MIN_PASSWORD_LENGTH == 12
MAX_PASSWORD_LENGTH == 24

\* Integer.MAX_VALUE
MaxInt == 2147483647

(***************************************************************************)
(* Values                                                                  *)
(***************************************************************************)
\* the null reference, distinct from every String (no character is "<null>")
NULL == <<"<null>">>

Return(v) == [kind |-> "return", value |-> v]
Throw(e) == [kind |-> "throw", value |-> e]

Returned(o) == o.kind = "return"
Thrown(o) == o.kind = "throw"

\* (byte) v
ToByte(v) == LET u == v % 256 IN IF u > 127 THEN u - 256 ELSE u
\* b & 0xff
Unsigned(b) == b % 256

Pow2(n) == 2 ^ n

(***************************************************************************)
(* java.lang.String: split, substring, isEmpty                             *)
(***************************************************************************)
Contains(s, ch) == \E i \in 1..Len(s) : s[i] = ch

\* the substrings between the matches of ch, the trailing one included
\* (the indexOf loop of String.split: one substring per match, then the rest)
splitAll(s, ch) ==
    LET seps == {i \in 1..Len(s) : s[i] = ch}
        n == Cardinality(seps)
        nth(k) == CHOOSE i \in seps : Cardinality({j \in seps : j < i}) = k - 1
        first(k) == IF k = 1 THEN 1 ELSE nth(k - 1) + 1
        last(k) == IF k = n + 1 THEN Len(s) ELSE nth(k) - 1
    IN [k \in 1..(n + 1) |-> SubSeq(s, first(k), last(k))]

\* resultSize is lowered while the last substring is empty
dropTrailingEmpty(list) ==
    LET nonEmpty == {k \in 1..Len(list) : list[k] # <<>>}
        resultSize == IF nonEmpty = {} THEN 0
                      ELSE CHOOSE k \in nonEmpty : \A j \in nonEmpty : j <= k
    IN SubSeq(list, 1, resultSize)

\* String.split(regex) for a one-character literal regex, limit 0: no match
\* gives the string itself; trailing empty strings are removed
split(s, ch) ==
    IF ~Contains(s, ch) THEN <<s>> ELSE dropTrailingEmpty(splitAll(s, ch))

\* s.substring(2); the caller checks Len(s) >= 2
substring2(s) == SubSeq(s, 3, Len(s))

(***************************************************************************)
(* Integer.parseInt and %d formatting                                      *)
(***************************************************************************)
Digits == <<"0", "1", "2", "3", "4", "5", "6", "7", "8", "9">>
DigitChars == {Digits[d] : d \in 1..10}
digitOf == [c \in DigitChars |-> (CHOOSE d \in 1..10 : Digits[d] = c) - 1]
IsDigit(c) == c \in DigitChars
DigitVal(c) == digitOf[c]

\* the digit loop of Integer.parseInt: accumulates negatively, result = -value;
\* "NFE" on a non-digit or on overflow past limit
RECURSIVE parseDigits(_, _, _, _)
parseDigits(s, i, result, limit) ==
    IF i > Len(s) THEN [exc |-> "none", value |-> result]
    ELSE IF ~IsDigit(s[i]) THEN [exc |-> "NumberFormatException", value |-> 0]
    ELSE IF result < -(MaxInt \div 10) THEN [exc |-> "NumberFormatException", value |-> 0]
    ELSE LET r10 == result * 10
             d == DigitVal(s[i])
         IN IF r10 < limit + d
            THEN [exc |-> "NumberFormatException", value |-> 0]
            ELSE parseDigits(s, i + 1, r10 - d, limit)

parseInt(s) ==
    IF s = <<>> THEN [exc |-> "NumberFormatException", value |-> 0]
    ELSE LET signed == s[1] \in {"-", "+"}
             negative == s[1] = "-"
             limit == IF negative THEN (-MaxInt) - 1 ELSE -MaxInt
             first == IF signed THEN 2 ELSE 1
         IN IF signed /\ Len(s) = 1
            THEN [exc |-> "NumberFormatException", value |-> 0]
            ELSE LET r == parseDigits(s, first, 0, limit)
                 IN IF r.exc # "none" THEN r
                    ELSE [exc |-> "none",
                          value |-> IF negative THEN r.value ELSE -r.value]

\* String.format("%d", n) for n >= 0
RECURSIVE formatD(_)
formatD(n) ==
    IF n < 10 THEN <<Digits[n + 1]>>
    ELSE Append(formatD(n \div 10), Digits[(n % 10) + 1])

(***************************************************************************)
(* java.util.Base64: basic encoder without padding, basic decoder          *)
(***************************************************************************)
B64 == <<"A", "B", "C", "D", "E", "F", "G", "H", "I", "J", "K", "L", "M",
         "N", "O", "P", "Q", "R", "S", "T", "U", "V", "W", "X", "Y", "Z",
         "a", "b", "c", "d", "e", "f", "g", "h", "i", "j", "k", "l", "m",
         "n", "o", "p", "q", "r", "s", "t", "u", "v", "w", "x", "y", "z",
         "0", "1", "2", "3", "4", "5", "6", "7", "8", "9", "+", "/">>
B64Chars == {B64[i] : i \in 1..64}
\* the decoder's table: the 6-bit value of each base64 character
fromBase64 == [c \in B64Chars |-> (CHOOSE i \in 1..64 : B64[i] = c) - 1]
IsB64(c) == c \in B64Chars
B64Val(c) == fromBase64[c]

\* bytes[i] & 0xff, 0 past the end of the array
ByteAt(bytes, i) == IF i <= Len(bytes) THEN Unsigned(bytes[i]) ELSE 0

\* the 24 bits of the u-th group of three bytes (u from 0)
Group24(bytes, u) ==
    ByteAt(bytes, 3 * u + 1) * 65536 + ByteAt(bytes, 3 * u + 2) * 256
    + ByteAt(bytes, 3 * u + 3)

\* Base64.getEncoder().withoutPadding().encodeToString(bytes): four
\* characters for each three bytes, two or three for the one or two bytes
\* left over, and no "="
encodeToString(bytes) ==
    LET n == Len(bytes)
        outLen == 4 * (n \div 3)
                  + (IF n % 3 = 1 THEN 2 ELSE IF n % 3 = 2 THEN 3 ELSE 0)
    IN [j \in 1..outLen |->
           B64[((Group24(bytes, (j - 1) \div 4) \div Pow2(18 - 6 * ((j - 1) % 4))) % 64) + 1]]

IAE == "IllegalArgumentException"

\* the 24 bits decode0 has accumulated for the u-th unit of four characters
\* (u from 0) of the first n characters of src
Unit24(src, n, u) ==
    LET v(k) == IF 4 * u + k <= n THEN B64Val(src[4 * u + k]) ELSE 0
    IN v(1) * 262144 + v(2) * 4096 + v(3) * 64 + v(4)

\* the bytes decode0 writes for the first n characters of src, all of them
\* base64 characters: three for each full unit, one or two for a last unit
\* of two or three characters
unitBytes(src, n) ==
    LET outLen == 3 * (n \div 4)
                  + (IF n % 4 = 2 THEN 1 ELSE IF n % 4 = 3 THEN 2 ELSE 0)
    IN [j \in 1..outLen |->
           ToByte(Unit24(src, n, (j - 1) \div 3) \div Pow2(16 - 8 * ((j - 1) % 3)))]

\* Decoder.decode0 (basic, not MIME).  The loop reads base64 characters until
\* the end or the first other character, at index stop; shiftto is 18, 12, 6
\* or 0 after 0, 1, 2 or 3 characters of a unit.  A character that is neither
\* base64 nor "=" is illegal; "=" is refused after 0 characters of a unit
\* and, after 2, unless a second "=" follows; a single dangling character
\* and anything after the padding are refused.
decode0(src) ==
    LET others == {i \in 1..Len(src) : ~IsB64(src[i])}
        stop == IF others = {} THEN Len(src) + 1
                ELSE CHOOSE i \in others : \A j \in others : i <= j
        n == stop - 1
        shiftto == 18 - 6 * (n % 4)
        next == IF stop > Len(src) THEN stop
                ELSE IF shiftto = 6 THEN stop + 2 ELSE stop + 1
    IN IF stop <= Len(src) /\ src[stop] # "=" THEN [exc |-> IAE, bytes |-> <<>>]
       ELSE IF stop <= Len(src)
               /\ ((shiftto = 6 /\ (stop = Len(src) \/ src[stop + 1] # "="))
                   \/ shiftto = 18)
            THEN [exc |-> IAE, bytes |-> <<>>]
       ELSE IF shiftto = 12 THEN [exc |-> IAE, bytes |-> <<>>]
       ELSE IF next <= Len(src) THEN [exc |-> IAE, bytes |-> <<>>]
       ELSE [exc |-> "none", bytes |-> unitBytes(src, n)]

\* Base64.getDecoder().decode(src): a single character is refused when the
\* output length is computed, everything else by decode0
decode(src) ==
    IF Len(src) = 1 THEN [exc |-> IAE, bytes |-> <<>>]
    ELSE decode0(src)

(***************************************************************************)
(* int arithmetic: ^ and | on two's-complement values (bytes are promoted  *)
(* to int with sign extension before they are combined)                    *)
(***************************************************************************)
RECURSIVE BitXor(_, _)
BitXor(a, b) ==
    IF a = 0 THEN b
    ELSE IF b = 0 THEN a
    ELSE IF a = -1 THEN (-b) - 1
    ELSE IF b = -1 THEN (-a) - 1
    ELSE (((a % 2) + (b % 2)) % 2) + 2 * BitXor(a \div 2, b \div 2)

RECURSIVE BitOr(_, _)
BitOr(a, b) ==
    IF a = 0 THEN b
    ELSE IF b = 0 THEN a
    ELSE IF a = -1 \/ b = -1 THEN -1
    ELSE (IF a % 2 = 1 \/ b % 2 = 1 THEN 1 ELSE 0) + 2 * BitOr(a \div 2, b \div 2)

(***************************************************************************)
(* org.bouncycastle Argon2BytesGenerator, as Argon2Hasher uses it.         *)
(* The key derivation is a deterministic function of the password, the     *)
(* salt, the three cost parameters and the output length.  It is modelled  *)
(* collision-free for outputs of HASH_LENGTH bytes: the inputs are packed  *)
(* into one block (salts up to SALT_LENGTH bytes, two-letter passwords up  *)
(* to 25 characters, costs below 2^24, the Argon2 type and version) and    *)
(* the block is offset by the output length.                               *)
(***************************************************************************)
\* new Argon2Parameters.Builder(ARGON2_id) ... .build(): the builder is
\* given the type and never a version, so the version is its default
Argon2Parameters(salt, iterations, memory, parallelism) ==
    [type |-> ARGON2_id, version |-> ARGON2_VERSION_13,
     salt |-> salt, iterations |-> iterations, memory |-> memory,
     lanes |-> parallelism]

\* generator.init(params): the generator's limits on lanes, memory, passes
generatorInit(params) ==
    IF params.lanes < 1 THEN "IllegalStateException"
    ELSE IF params.lanes > 16777216 THEN "IllegalStateException"
    ELSE IF params.memory < 2 * params.lanes THEN "IllegalStateException"
    ELSE IF params.iterations < 1 THEN "IllegalStateException"
    ELSE "none"

CharBit(c) == IF c = "a" THEN 0 ELSE 1

PwBit(password, i) == IF i <= Len(password) THEN CharBit(password[i]) ELSE 0

\* bits 8k+1..8k+8 of the password's letters, as a byte
PwByte(password, k) ==
    PwBit(password, 8 * k + 1) + 2 * PwBit(password, 8 * k + 2)
    + 4 * PwBit(password, 8 * k + 3) + 8 * PwBit(password, 8 * k + 4)
    + 16 * PwBit(password, 8 * k + 5) + 32 * PwBit(password, 8 * k + 6)
    + 64 * PwBit(password, 8 * k + 7) + 128 * PwBit(password, 8 * k + 8)

ArgonBlock(password, params, i) ==
    IF i <= 16 THEN ByteAt(params.salt, i)
    ELSE IF i = 17 THEN Len(params.salt)
    ELSE IF i = 18 THEN Len(password)
    ELSE IF i <= 22 THEN PwByte(password, i - 19)
    ELSE IF i <= 25 THEN params.memory \div Pow2(8 * (i - 23))
    ELSE IF i <= 28 THEN params.iterations \div Pow2(8 * (i - 26))
    ELSE IF i <= 31 THEN params.lanes \div Pow2(8 * (i - 29))
    ELSE 32 * params.type + params.version

\* generator.generateBytes(password.toCharArray(), out) with out of outLen bytes
generateBytes(password, params, outLen) ==
    [i \in 1..outLen |-> ToByte(ArgonBlock(password, params, ((i - 1) % 32) + 1) + outLen)]

(***************************************************************************)
(* Argon2Hasher (Bouncy Castle variant)                                    *)
(***************************************************************************)
\* the record's canonical constructor: components in declaration order
HashComponents(iterations, memory, parallelism, params, hash) ==
    [iterations |-> iterations, memory |-> memory, parallelism |-> parallelism,
     params |-> params, hash |-> hash]

NoComponents == HashComponents(0, 0, 0, Argon2Parameters(<<>>, 0, 0, 0), <<>>)

Parsed(components) == [exc |-> "none", components |-> components]
ParseFails(e) == [exc |-> e, components |-> NoComponents]

AIOOBE == "ArrayIndexOutOfBoundsException"
SIOOBE == "StringIndexOutOfBoundsException"
NPE == "NullPointerException"

\* Integer.parseInt(paramTokens[k].substring(2))
paramValue(paramTokens, k) ==
    IF Len(paramTokens) < k THEN [exc |-> AIOOBE, value |-> 0]
    ELSE IF Len(paramTokens[k]) < 2 THEN [exc |-> SIOOBE, value |-> 0]
    ELSE parseInt(substring2(paramTokens[k]))

parseHash(encodedHash) ==
    IF encodedHash = NULL THEN ParseFails(NPE)
    ELSE LET parts == split(encodedHash, "$")
         IN IF Len(parts) < 4 THEN ParseFails(AIOOBE)
            ELSE LET paramTokens == split(parts[4], ",")
                     memory == paramValue(paramTokens, 1)
                     iterations == paramValue(paramTokens, 2)
                     parallelism == paramValue(paramTokens, 3)
                 IN IF memory.exc # "none" THEN ParseFails(memory.exc)
                    ELSE IF iterations.exc # "none" THEN ParseFails(iterations.exc)
                    ELSE IF parallelism.exc # "none" THEN ParseFails(parallelism.exc)
                    ELSE IF Len(parts) < 5 THEN ParseFails(AIOOBE)
                    ELSE LET salt == decode(parts[5])
                         IN IF salt.exc # "none" THEN ParseFails(salt.exc)
                            ELSE IF Len(parts) < 6 THEN ParseFails(AIOOBE)
                            ELSE LET hash == decode(parts[6])
                                     params == Argon2Parameters(salt.bytes,
                                                  iterations.value, memory.value,
                                                  parallelism.value)
                                 IN IF hash.exc # "none" THEN ParseFails(hash.exc)
                                    ELSE Parsed(HashComponents(memory.value,
                                                  iterations.value,
                                                  parallelism.value,
                                                  params, hash.bytes))

\* encodeHash with the encoder left padding ("=" up to a multiple of four)
encodeHashPadded(salt, hash) ==
    <<"$", "a", "r", "g", "o", "n", "2", "i", "d", "$", "v", "=">>
    \o formatD(ARGON2_VERSION_13)
    \o <<"$", "m", "=">> \o formatD(MEMORY)
    \o <<",", "t", "=">> \o formatD(ITERATIONS)
    \o <<",", "p", "=">> \o formatD(PARALLELISM)
    \o <<"$">> \o encodeToString(salt)
    \o (IF Len(salt) % 3 = 1 THEN <<"=", "=">>
        ELSE IF Len(salt) % 3 = 2 THEN <<"=">> ELSE <<>>)
    \o <<"$">> \o encodeToString(hash)
    \o (IF Len(hash) % 3 = 1 THEN <<"=", "=">>
        ELSE IF Len(hash) % 3 = 2 THEN <<"=">> ELSE <<>>)

\* encodeHash with the format arguments for m and t exchanged
encodeHashParamOrder(salt, hash) ==
    <<"$", "a", "r", "g", "o", "n", "2", "i", "d", "$", "v", "=">>
    \o formatD(ARGON2_VERSION_13)
    \o <<"$", "m", "=">> \o formatD(ITERATIONS)
    \o <<",", "t", "=">> \o formatD(MEMORY)
    \o <<",", "p", "=">> \o formatD(PARALLELISM)
    \o <<"$">> \o encodeToString(salt)
    \o <<"$">> \o encodeToString(hash)

encodeHash(salt, hash) ==
    <<"$", "a", "r", "g", "o", "n", "2", "i", "d", "$", "v", "=">>
    \o formatD(ARGON2_VERSION_13)
    \o <<"$", "m", "=">> \o formatD(MEMORY)
    \o <<",", "t", "=">> \o formatD(ITERATIONS)
    \o <<",", "p", "=">> \o formatD(PARALLELISM)
    \o <<"$">> \o encodeToString(salt)
    \o <<"$">> \o encodeToString(hash)

\* result after the loop of constantTimeEquals has run over indexes lo..hi:
\* the OR of expected[i] ^ actual[i] over them (0 for none); the range is
\* halved, OR being associative
RECURSIVE xorAccumulate(_, _, _, _)
xorAccumulate(expected, actual, lo, hi) ==
    IF lo > hi THEN 0
    ELSE IF lo = hi THEN BitXor(expected[lo], actual[lo])
    ELSE LET mid == (lo + hi) \div 2
         IN BitOr(xorAccumulate(expected, actual, lo, mid),
                  xorAccumulate(expected, actual, mid + 1, hi))

\* constantTimeEquals without the loop
constantTimeEqualsLengthOnly(expected, actual) ==
    Len(expected) = Len(actual)

\* constantTimeEquals with "result =" for "result |=": the last pair decides
constantTimeEqualsLastPair(expected, actual) ==
    IF Len(expected) # Len(actual) THEN FALSE
    ELSE IF Len(expected) = 0 THEN TRUE
    ELSE BitXor(expected[Len(expected)], actual[Len(expected)]) = 0

constantTimeEquals(expected, actual) ==
    IF Len(expected) # Len(actual) THEN FALSE
    ELSE xorAccumulate(expected, actual, 1, Len(expected)) = 0

\* hash without the call of secureRandom.nextBytes: the salt stays all zero
hashZeroSalt(password, salt) ==
    LET zeros == [i \in 1..SALT_LENGTH |-> 0]
        params == Argon2Parameters(zeros, ITERATIONS, MEMORY, PARALLELISM)
    IN IF generatorInit(params) # "none" THEN Throw(generatorInit(params))
       ELSE IF password = NULL THEN Throw(NPE)
       ELSE Return(encodeHash(zeros, generateBytes(password, params, HASH_LENGTH)))

\* hash(password) when secureRandom.nextBytes fills salt
hash(password, salt) ==
    LET params == Argon2Parameters(salt, ITERATIONS, MEMORY, PARALLELISM)
    IN IF generatorInit(params) # "none" THEN Throw(generatorInit(params))
       ELSE IF password = NULL THEN Throw(NPE)
       ELSE Return(encodeHash(salt, generateBytes(password, params, HASH_LENGTH)))

\* verify deriving with the policy constants instead of the parsed costs
verifyWithPolicy(encodedHash, password) ==
    LET parsed == parseHash(encodedHash)
        components == parsed.components
        params == Argon2Parameters(components.params.salt, ITERATIONS, MEMORY,
                                   PARALLELISM)
    IN IF parsed.exc # "none" THEN Throw(parsed.exc)
       ELSE IF generatorInit(params) # "none" THEN Throw(generatorInit(params))
       ELSE IF password = NULL THEN Throw(NPE)
       ELSE IF Len(components.hash) < 4 THEN Throw("IllegalStateException")
       ELSE Return(constantTimeEquals(components.hash,
                       generateBytes(password, params, Len(components.hash))))

verify(encodedHash, password) ==
    LET parsed == parseHash(encodedHash)
        components == parsed.components
    IN IF parsed.exc # "none" THEN Throw(parsed.exc)
       ELSE IF generatorInit(components.params) # "none"
            THEN Throw(generatorInit(components.params))
       ELSE IF password = NULL THEN Throw(NPE)
       ELSE IF Len(components.hash) < 4 THEN Throw("IllegalStateException")
       ELSE Return(constantTimeEquals(components.hash,
                       generateBytes(password, components.params,
                                     Len(components.hash))))

needsRehash(encodedHash) ==
    LET parsed == parseHash(encodedHash)
        components == parsed.components
    IN IF parsed.exc # "none" THEN Throw(parsed.exc)
       ELSE Return(components.memory # MEMORY
                   \/ components.iterations # ITERATIONS
                   \/ components.parallelism # PARALLELISM)

\* parseHash followed by encodeHash on the parsed salt and hash bytes
reencode(encodedHash) ==
    LET parsed == parseHash(encodedHash)
    IN IF parsed.exc # "none" THEN Throw(parsed.exc)
       ELSE Return(encodeHash(parsed.components.params.salt,
                              parsed.components.hash))

(***************************************************************************)
(* Argon2Hasher (argon2-jvm variant): the argument checks are the class's  *)
(* own; the library calls produce and read the same PHC string format.     *)
(***************************************************************************)
jvmHash(password, salt) ==
    IF password = NULL \/ password = <<>> THEN Throw(IAE)
    ELSE IF Len(password) < MIN_PASSWORD_LENGTH \/ Len(password) > MAX_PASSWORD_LENGTH
         THEN Throw(IAE)
    ELSE hash(password, salt)

jvmVerify(encodedHash, password) ==
    IF password = NULL \/ password = <<>> THEN Throw(IAE)
    ELSE IF encodedHash = NULL \/ encodedHash = <<>> THEN Throw(IAE)
    ELSE LET r == verify(encodedHash, password)
         IN IF Thrown(r) THEN Return(FALSE) ELSE r

(***************************************************************************)
(* Inputs: passwords, salts, and the hash strings a credential row holds   *)
(***************************************************************************)
PwChars == {"a", "b"}

RECURSIVE Strs(_)
Strs(n) ==
    IF n = 0 THEN {<<>>}
    ELSE Strs(n - 1) \cup {Append(s, c) : s \in Strs(n - 1), c \in PwChars}

Repeat(c, n) == [i \in 1..n |-> c]

Passwords ==
    {NULL} \cup Strs(MaxPwLen)
    \cup {Repeat("a", MIN_PASSWORD_LENGTH), Repeat("b", MAX_PASSWORD_LENGTH + 1)}

\* what secureRandom.nextBytes can leave in the salt array
SaltOf(k) == [i \in 1..SALT_LENGTH |-> ToByte(k * 37 + i * (k + 10))]
Salts == {SaltOf(k) : k \in 1..NumSalts}

ARGON2ID == <<"a", "r", "g", "o", "n", "2", "i", "d">>
V19 == <<"v", "=", "1", "9">>

ParamSeg(mText, tText, pText) ==
    <<"m", "=">> \o mText \o <<",", "t", "=">> \o tText \o <<",", "p", "=">> \o pText

RECURSIVE Join(_)
Join(segs) ==
    IF Len(segs) = 0 THEN <<>>
    ELSE IF Len(segs) = 1 THEN segs[1]
    ELSE segs[1] \o <<"$">> \o Join(Tail(segs))

\* canonical padding of an unpadded base64 text
Padded(text) ==
    text \o (IF Len(text) % 4 = 2 THEN <<"=", "=">>
             ELSE IF Len(text) % 4 = 3 THEN <<"=">> ELSE <<>>)

\* A stored hash string with what is known of it by construction: the
\* segments it was joined from, whether its cost texts are decimal numerals
\* and its salt and hash texts base64, the costs, salt and password it was
\* derived from (0, <<>>, NULL where there are none).
Row(origin, family, segs, numeric, b64ok, m, t, p, salt, pw) ==
    [text |-> Join(segs), origin |-> origin, family |-> family, segs |-> segs,
     segCount |-> Len(segs), numeric |-> numeric, b64ok |-> b64ok,
     m |-> m, t |-> t, p |-> p, salt |-> salt, pw |-> pw]

NoHash ==
    [text |-> NULL, origin |-> "none", family |-> "none", segs |-> <<>>,
     segCount |-> 0, numeric |-> FALSE, b64ok |-> FALSE,
     m |-> 0, t |-> 0, p |-> 0, salt |-> <<>>, pw |-> NULL]

\* the row holding a string hash() or the argon2-jvm library returned
HashRow(origin, text, salt, pw) ==
    [text |-> text, origin |-> origin, family |-> "wellformed",
     segs |-> splitAll(text, "$"),
     segCount |-> 6, numeric |-> TRUE, b64ok |-> TRUE,
     m |-> MEMORY, t |-> ITERATIONS, p |-> PARALLELISM, salt |-> salt, pw |-> pw]

MValues == {3, 8, MEMORY}
TValues == {1, ITERATIONS, 65536}
PValues == {1, PARALLELISM}

RowPassword == <<"a">>
RowSalt == SaltOf(1)

\* segments of a well-formed string derived from pw under costs m, t, p
WellFormedSegs(m, t, p, salt, pw) ==
    <<<<>>, ARGON2ID, V19, ParamSeg(formatD(m), formatD(t), formatD(p)),
      encodeToString(salt),
      encodeToString(generateBytes(pw, Argon2Parameters(salt, t, m, p), HASH_LENGTH))>>

WellFormedRows ==
    {Row("db", "wellformed", WellFormedSegs(m, t, p, RowSalt, RowPassword),
         TRUE, TRUE, m, t, p, RowSalt, RowPassword) :
        m \in MValues, t \in TValues, p \in PValues}

PolicySegs == WellFormedSegs(MEMORY, ITERATIONS, PARALLELISM, RowSalt, RowPassword)

\* the same string with its salt and hash texts padded with "="
PaddedRows ==
    {Row("db", "padded",
         [PolicySegs EXCEPT ![5] = Padded(PolicySegs[5]), ![6] = Padded(PolicySegs[6])],
         TRUE, TRUE, MEMORY, ITERATIONS, PARALLELISM, RowSalt, RowPassword)}

\* too few segments
CutRows ==
    {Row("db", "cut", SubSeq(PolicySegs, 1, k), TRUE, TRUE, 0, 0, 0, <<>>, NULL) :
        k \in 0..5}
    \cup {Row("db", "cut", <<<<"n", "o", "t", "-", "a", "-", "h", "a", "s", "h">>>>,
              FALSE, FALSE, 0, 0, 0, <<>>, NULL)}

\* extra segments after the hash text (an empty one is a trailing "$")
ExtraRows ==
    {Row("db", "extra", PolicySegs \o extra, TRUE, TRUE,
         MEMORY, ITERATIONS, PARALLELISM, RowSalt, RowPassword) :
        extra \in {<<<<"x">>>>, <<<<>>>>, <<<<>>, <<"x">>>>}}

NonNumerals == {<<>>, <<"x">>, <<"6", "x">>}

\* one cost text that is no decimal numeral
NonNumericRows ==
    {Row("db", "nonnumeric",
         [PolicySegs EXCEPT ![4] =
             ParamSeg(IF k = 1 THEN bad ELSE formatD(MEMORY),
                      IF k = 2 THEN bad ELSE formatD(ITERATIONS),
                      IF k = 3 THEN bad ELSE formatD(PARALLELISM))],
         FALSE, TRUE, 0, 0, 0, RowSalt, RowPassword) :
        k \in 1..3, bad \in NonNumerals}

NonBase64 == {<<"!", "!", "!", "!">>, <<"A">>, <<"A", "A", "=">>,
              <<"A", "A", "A", "A", "A">>}

\* a salt text or a hash text that is no base64
BadBase64Rows ==
    {Row("db", "badbase64", [PolicySegs EXCEPT ![k] = bad],
         TRUE, FALSE, MEMORY, ITERATIONS, PARALLELISM, <<>>, NULL) :
        k \in 5..6, bad \in NonBase64}

ARGON2I == <<"a", "r", "g", "o", "n", "2", "i">>
V16 == <<"v", "=", "1", "6">>

\* Strings of six segments that declare another algorithm or version than
\* hash writes: the policy string under another tag or version, and a hash
\* as an Argon2 version 0x10 implementation derives it.
ForeignRows ==
    {Row("db", "foreign", [PolicySegs EXCEPT ![2] = ARGON2I],
         TRUE, TRUE, MEMORY, ITERATIONS, PARALLELISM, RowSalt, RowPassword),
     Row("db", "foreign", [PolicySegs EXCEPT ![3] = V16],
         TRUE, TRUE, MEMORY, ITERATIONS, PARALLELISM, RowSalt, RowPassword),
     Row("db", "foreign",
         [PolicySegs EXCEPT ![3] = V16,
             ![6] = encodeToString(generateBytes(RowPassword,
                        [Argon2Parameters(RowSalt, ITERATIONS, MEMORY, PARALLELISM)
                            EXCEPT !.version = 16],
                        HASH_LENGTH))],
         TRUE, TRUE, MEMORY, ITERATIONS, PARALLELISM, RowSalt, RowPassword)}

DbRows ==
    WellFormedRows \cup PaddedRows \cup CutRows \cup ExtraRows
    \cup NonNumericRows \cup BadBase64Rows \cup ForeignRows

(***************************************************************************)
(* State: the stored hash of the credential at hand and the last call      *)
(***************************************************************************)
Call(op, password, out) == [op |-> op, password |-> password, out |-> out]

\* no comparison of byte arrays under way
NotCompared == [done |-> FALSE, result |-> FALSE]
Compared(result) == [done |-> TRUE, result |-> result]

\* the frame of a call of constantTimeEquals: the statement it is at, the
\* locals i and result, the indexes read so far, the value returned
LoopFrame(at, i, result, inspected, returned) ==
    [at |-> at, i |-> i, result |-> result, inspected |-> inspected,
     returned |-> returned]

NotCalled == LoopFrame("none", 0, 0, <<>>, FALSE)

IdleEquals ==
    /\ expectedBytes = <<>>
    /\ actualBytes = <<>>
    /\ equal = NotCompared
    /\ loop = NotCalled

\* no credential built
NoCredentialCall == [op |-> "none", receiver |-> 0, arg |-> 0, out |-> Return(0)]
IdleCredential ==
    heap = <<>> /\ made = <<>> /\ clock = 0 /\ lastCall = NoCredentialCall

\* no thread started
IdleThreads ==
    pc = <<>> /\ frame = <<>> /\ randomState = 0 /\ generators = <<>>

\* no request made of AuthService
NoSession ==
    [op |-> "none", email |-> "", password |-> "", signed |-> FALSE,
     out |-> Return(0)]
IdleAuth == users = <<>> /\ secrets = <<>> /\ session = NoSession /\ issued = {}

\* DatabaseService constructed, onModuleInit not yet called
NoPool == [state |-> "none", out |-> {}, releases |-> <<>>]
IdleDatabase == pool = NoPool /\ task = <<>>

IdleServices == IdleAuth /\ IdleDatabase

\* no call made on the hasher
IdleHasher ==
    /\ stored = NoHash
    /\ call = Call("new", NULL, Return(FALSE))
    /\ earlier = NoHash

Init ==
    /\ stored \in {NoHash} \cup DbRows
    /\ call = Call("new", NULL, Return(FALSE))
    /\ earlier = NoHash
    /\ IdleEquals
    /\ IdleCredential
    /\ IdleThreads
    /\ IdleServices

\* registration or rehash: the returned string replaces the stored one
Hash(password, salt) ==
    LET out == hash(password, salt)
    IN /\ call' = Call("hash", password, out)
       /\ stored' = IF Returned(out) THEN HashRow("hash", out.value, salt, password)
                    ELSE stored
       /\ UNCHANGED outsideHasher

Verify(password) ==
    /\ call' = Call("verify", password, verify(stored.text, password))
    /\ UNCHANGED <<stored, outsideHasher>>

NeedsRehash ==
    /\ call' = Call("needsRehash", NULL, needsRehash(stored.text))
    /\ UNCHANGED <<stored, outsideHasher>>

Reencode ==
    /\ call' = Call("reencode", NULL, reencode(stored.text))
    /\ UNCHANGED <<stored, outsideHasher>>

JvmHash(password, salt) ==
    LET out == jvmHash(password, salt)
    IN /\ call' = Call("jvmHash", password, out)
       /\ stored' = IF Returned(out) THEN HashRow("jvm", out.value, salt, password)
                    ELSE stored
       /\ UNCHANGED outsideHasher

JvmVerify(password) ==
    /\ call' = Call("jvmVerify", password, jvmVerify(stored.text, password))
    /\ UNCHANGED <<stored, outsideHasher>>

Next ==
    \/ \E password \in Passwords, salt \in Salts : Hash(password, salt)
    \/ \E password \in Passwords : Verify(password)
    \/ NeedsRehash
    \/ Reencode
    \/ \E password \in Passwords, salt \in Salts : JvmHash(password, salt)
    \/ \E password \in Passwords : JvmVerify(password)

Spec == Init /\ [][Next]_vars

(***************************************************************************)
(* Two registrations in a row: hash called again replaces the stored       *)
(* string, which is kept aside                                             *)
(***************************************************************************)
InitRepeat ==
    /\ IdleHasher
    /\ IdleEquals
    /\ IdleCredential
    /\ IdleThreads
    /\ IdleServices

HashAgain(password, salt) ==
    LET out == hash(password, salt)
    IN /\ Returned(out)
       /\ call' = Call("hash", password, out)
       /\ stored' = HashRow("hash", out.value, salt, password)
       /\ earlier' = stored
       /\ UNCHANGED <<equalsVars, credentialVars, threadVars, serviceVars>>

NextRepeat == \E password \in Passwords, salt \in Salts : HashAgain(password, salt)

SpecRepeat == InitRepeat /\ [][NextRepeat]_vars

(***************************************************************************)
(* constantTimeEquals on its own, over byte arrays of every kind           *)
(***************************************************************************)
\* longest byte array compared
MaxBytes == 2

\* the extremes, the sign bit alone, all bits set, and neighbours
ByteValues == {-128, -1, 0, 1, 127}

RECURSIVE ByteArrays(_)
ByteArrays(n) ==
    IF n = 0 THEN {<<>>}
    ELSE ByteArrays(n - 1)
         \cup {Append(a, b) : a \in ByteArrays(n - 1), b \in ByteValues}

InitEquals ==
    /\ expectedBytes \in ByteArrays(MaxBytes)
    /\ actualBytes \in ByteArrays(MaxBytes)
    /\ equal = NotCompared
    /\ loop = NotCalled
    /\ IdleHasher
    /\ IdleCredential
    /\ IdleThreads
    /\ IdleServices

ConstantTimeEquals ==
    /\ ~equal.done
    /\ equal' = Compared(constantTimeEquals(expectedBytes, actualBytes))
    /\ UNCHANGED <<expectedBytes, actualBytes, loop, stored, call, earlier,
                   credentialVars, threadVars, serviceVars>>

NextEquals == ConstantTimeEquals

SpecEquals == InitEquals /\ [][NextEquals]_vars

(***************************************************************************)
(* constantTimeEquals statement by statement: the length check, then one   *)
(* step per turn of the for loop, then the return                          *)
(***************************************************************************)
InitLoop ==
    /\ expectedBytes \in ByteArrays(MaxBytes)
    /\ actualBytes \in ByteArrays(MaxBytes)
    /\ equal = NotCompared
    /\ loop = LoopFrame("entry", 0, 0, <<>>, FALSE)
    /\ IdleHasher
    /\ IdleCredential
    /\ IdleThreads
    /\ IdleServices

outsideLoop ==
    <<expectedBytes, actualBytes, equal, stored, call, earlier,
      credentialVars, threadVars, serviceVars>>

\* the loop body with a return at the first pair that differs
loopBodyEarlyReturn(l, expected, actual) ==
    IF expected[l.i + 1] # actual[l.i + 1]
    THEN [l EXCEPT !.at = "returned", !.returned = FALSE,
                   !.inspected = Append(@, l.i)]
    ELSE [l EXCEPT !.i = @ + 1, !.inspected = Append(@, l.i)]

\* result |= expected[i] ^ actual[i]; i++   (Java indexes from 0)
loopBody(l, expected, actual) ==
    [l EXCEPT !.result = BitOr(@, BitXor(expected[l.i + 1], actual[l.i + 1])),
              !.i = @ + 1,
              !.inspected = Append(@, l.i)]

\* if (expected.length != actual.length) return false; int result = 0; i = 0
LengthCheck ==
    /\ loop.at = "entry"
    /\ loop' = IF Len(expectedBytes) # Len(actualBytes)
               THEN [loop EXCEPT !.at = "returned", !.returned = FALSE]
               ELSE [loop EXCEPT !.at = "for", !.result = 0, !.i = 0]
    /\ UNCHANGED outsideLoop

\* i < expected.length holds: the body runs
LoopTurn ==
    /\ loop.at = "for"
    /\ loop.i < Len(expectedBytes)
    /\ loop' = loopBody(loop, expectedBytes, actualBytes)
    /\ UNCHANGED outsideLoop

\* i < expected.length fails: return result == 0
LoopExit ==
    /\ loop.at = "for"
    /\ ~(loop.i < Len(expectedBytes))
    /\ loop' = [loop EXCEPT !.at = "returned", !.returned = (loop.result = 0)]
    /\ UNCHANGED outsideLoop

NextLoop == LengthCheck \/ LoopTurn \/ LoopExit

SpecLoop == InitLoop /\ [][NextLoop]_vars

(***************************************************************************)
(* Credential: an immutable entity; every instance lives in `heap` under   *)
(* its reference, and a transition builds a new instance from a copy.      *)
(* An Instant is a number; an enum value, a UUID are strings.              *)
(***************************************************************************)
\* most instances built
MaxInstances == 3
\* latest reading of the clock
MaxClock == 2

\* the null Instant
NoInstant == -1
\* the null UUID, the null enum value
NoValue == "null"

AuthProvider == {"LOCAL", "GOOGLE"}
CredentialStatus == {"ACTIVE", "SUSPENDED", "DELETED"}

WhiteSpace == {" ", "\t"}
isBlank(s) == \A i \in 1..Len(s) : s[i] \in WhiteSpace

\* Objects.requireNonNull(obj, message)
requireNonNull(isNull, message) ==
    IF isNull THEN [type |-> "NullPointerException", message |-> message]
    ELSE "none"

IllegalArgument(message) ==
    [type |-> "IllegalArgumentException", message |-> message]

\* validate without the rule for the providers other than LOCAL
validateLocalRuleOnly(h, this) ==
    LET c == h[this]
    IN IF c.id = NoValue
       THEN Throw(requireNonNull(TRUE, "Credential ID cannot be null"))
       ELSE IF c.email = NULL
       THEN Throw(requireNonNull(TRUE, "Email cannot be null"))
       ELSE IF c.authProvider = NoValue
       THEN Throw(requireNonNull(TRUE, "Auth provider cannot be null"))
       ELSE IF c.status = NoValue
       THEN Throw(requireNonNull(TRUE, "Status cannot be null"))
       ELSE IF isBlank(c.email)
       THEN Throw(IllegalArgument("Email cannot be blank"))
       ELSE IF /\ c.authProvider = "LOCAL"
               /\ (c.passwordHash = NULL \/ isBlank(c.passwordHash))
       THEN Throw(IllegalArgument(
                "Password hash is required for LOCAL authentication"))
       ELSE Return(this)

\* validate with the provider rules checked before the email is looked at
validateProviderRulesFirst(h, this) ==
    LET c == h[this]
    IN IF c.id = NoValue
       THEN Throw(requireNonNull(TRUE, "Credential ID cannot be null"))
       ELSE IF /\ c.authProvider = "LOCAL"
               /\ (c.passwordHash = NULL \/ isBlank(c.passwordHash))
       THEN Throw(IllegalArgument(
                "Password hash is required for LOCAL authentication"))
       ELSE IF /\ c.authProvider \notin {"LOCAL", NoValue}
               /\ (c.authSubject = NULL \/ isBlank(c.authSubject))
       THEN Throw(IllegalArgument(
                "Auth subject is required for OAuth authentication"))
       ELSE IF c.email = NULL
       THEN Throw(requireNonNull(TRUE, "Email cannot be null"))
       ELSE IF c.authProvider = NoValue
       THEN Throw(requireNonNull(TRUE, "Auth provider cannot be null"))
       ELSE IF c.status = NoValue
       THEN Throw(requireNonNull(TRUE, "Status cannot be null"))
       ELSE IF isBlank(c.email)
       THEN Throw(IllegalArgument("Email cannot be blank"))
       ELSE Return(this)

\* this.validate(), `this` a reference into h
validate(h, this) ==
    LET c == h[this]
    IN IF c.id = NoValue
       THEN Throw(requireNonNull(TRUE, "Credential ID cannot be null"))
       ELSE IF c.email = NULL
       THEN Throw(requireNonNull(TRUE, "Email cannot be null"))
       ELSE IF c.authProvider = NoValue
       THEN Throw(requireNonNull(TRUE, "Auth provider cannot be null"))
       ELSE IF c.status = NoValue
       THEN Throw(requireNonNull(TRUE, "Status cannot be null"))
       ELSE IF isBlank(c.email)
       THEN Throw(IllegalArgument("Email cannot be blank"))
       ELSE IF /\ c.authProvider = "LOCAL"
               /\ (c.passwordHash = NULL \/ isBlank(c.passwordHash))
       THEN Throw(IllegalArgument(
                "Password hash is required for LOCAL authentication"))
       ELSE IF /\ c.authProvider # "LOCAL"
               /\ (c.authSubject = NULL \/ isBlank(c.authSubject))
       THEN Throw(IllegalArgument(
                "Auth subject is required for OAuth authentication"))
       ELSE Return(this)

\* canLogin that looks at the status alone
canLoginByStatus(c) == c.status = "ACTIVE"

canLogin(c) == c.status = "ACTIVE" /\ c.deletedAt = NoInstant

isEmailVerified(c) == c.emailVerifiedAt # NoInstant

\* the fields @EqualsAndHashCode compares
EqualsIncluded == {"id"}

\* a.equals(b) as Lombok generates it, a and b credentials
equalsAllFields(a, b) == a = b

equals(a, b) == \A f \in EqualsIncluded : a[f] = b[f]

\* toBuilder() copies every field; each setter replaces one; the readings of
\* Instant.now() are taken in the order of the setter calls
\* withLastLogin on a new builder() given the id, email and password hash,
\* instead of toBuilder(): the other fields fall back to their defaults
withLastLoginFromNewBuilder(c, loginTime, now) ==
    [c EXCEPT !.lastLoginAt = loginTime, !.updatedAt = now,
              !.authProvider = "LOCAL", !.authSubject = NULL,
              !.mfaEnabled = FALSE]

withLastLogin(c, loginTime, now) ==
    [c EXCEPT !.lastLoginAt = loginTime, !.updatedAt = now]

\* asSoftDeleted that also drops the password hash
asSoftDeletedScrubbing(c, now1, now2) ==
    [c EXCEPT !.status = "DELETED", !.deletedAt = now1, !.updatedAt = now2,
              !.passwordHash = NULL]

asSoftDeleted(c, now1, now2) ==
    [c EXCEPT !.status = "DELETED", !.deletedAt = now1, !.updatedAt = now2]

withVerifiedEmail(c, now1, now2) ==
    [c EXCEPT !.emailVerifiedAt = now1, !.updatedAt = now2]

withPasswordHash(c, newPasswordHash, now) ==
    [c EXCEPT !.passwordHash = newPasswordHash, !.updatedAt = now]

\* asSuspended without .status(CredentialStatus.SUSPENDED)
asSuspendedTimestampOnly(c, now) ==
    [c EXCEPT !.updatedAt = now]

asSuspended(c, now) ==
    [c EXCEPT !.status = "SUSPENDED", !.updatedAt = now]

\* asReactivated without .deletedAt(null)
asReactivatedStillDeleted(c, now) ==
    [c EXCEPT !.status = "ACTIVE", !.updatedAt = now]

asReactivated(c, now) ==
    [c EXCEPT !.status = "ACTIVE", !.deletedAt = NoInstant, !.updatedAt = now]

\* a builder that writes into the instance it was made from
buildIntoReceiver(h, this, fields) ==
    [heap |-> [h EXCEPT ![this] = fields], ref |-> this]

\* build(): a new instance, with the reference to it
build(h, this, fields) ==
    [heap |-> Append(h, fields), ref |-> Len(h) + 1]

\* Credential.builder()...build() with the fields the builder was given; the
\* other fields keep their defaults
Built(id, email, passwordHash, authProvider, authSubject, status, deletedAt) ==
    [id |-> id, email |-> email, passwordHash |-> passwordHash,
     authProvider |-> authProvider, authSubject |-> authSubject,
     mfaEnabled |-> FALSE, status |-> status, emailVerifiedAt |-> NoInstant,
     lastLoginAt |-> NoInstant, createdAt |-> 0, updatedAt |-> 0,
     deletedAt |-> deletedAt]

\* credentials as registration leaves them or persistence returns them
Registered ==
    {Built("u1", <<"a">>, <<"h">>, "LOCAL", NULL, status, deletedAt) :
        status \in CredentialStatus, deletedAt \in {NoInstant, 0}}

\* whatever the builder lets through
AnyBuilt ==
    {Built(id, email, passwordHash, authProvider, authSubject, status, deletedAt) :
        id \in {NoValue, "u1"},
        email \in {NULL, <<>>, <<" ">>, <<"a">>, <<"A">>},
        passwordHash \in {NULL, <<" ">>, <<"h">>},
        authProvider \in AuthProvider \cup {NoValue},
        authSubject \in {NULL, <<" ">>, <<"s">>},
        status \in CredentialStatus \cup {NoValue},
        deletedAt \in {NoInstant, 0}}

NewHashes == {<<"n">>}

\* what Instant.now() can return when the latest reading was `after`
Readings(after) == {n \in after..(after + 1) : n <= MaxClock}

Refs == 1..Len(heap)

\* the instance built last, the one its caller holds
Newest == Len(heap)

\* what a caller can compare a credential with: an instance of the heap, or
\* the record of another user that agrees with it in all but the id
Others(this) ==
    {heap[r] : r \in Refs} \cup {[heap[this] EXCEPT !.id = "u2"]}

CredentialCall(op, this, arg, out) ==
    [op |-> op, receiver |-> this, arg |-> arg, out |-> out]

Origin == [op |-> "build", from |-> 0, since |-> 0]

InitCredential ==
    /\ \E c \in Registered : heap = <<c>>
    /\ made = <<Origin>>
    /\ clock = 0
    /\ lastCall = NoCredentialCall
    /\ IdleHasher
    /\ IdleEquals
    /\ IdleThreads
    /\ IdleServices

InitValidate ==
    /\ \E c \in AnyBuilt : heap = <<c>>
    /\ made = <<Origin>>
    /\ clock = 0
    /\ lastCall = NoCredentialCall
    /\ IdleHasher
    /\ IdleEquals
    /\ IdleThreads
    /\ IdleServices

outsideCredential == <<stored, call, earlier, equalsVars, threadVars, serviceVars>>

\* a transition of `this` that ends in build() on `fields`, the last reading
\* of the clock being lastNow
Transition(op, this, fields, lastNow) ==
    LET b == build(heap, this, fields)
    IN /\ Len(heap) < MaxInstances
       /\ Len(made) < MaxInstances
       /\ heap' = b.heap
       /\ made' = Append(made, [op |-> op, from |-> this, since |-> clock])
       /\ clock' = lastNow
       /\ lastCall' = CredentialCall(op, this, 0, Return(b.ref))
       /\ UNCHANGED outsideCredential

WithLastLogin(this, loginTime) ==
    \E now \in Readings(clock) :
        Transition("withLastLogin", this,
                   withLastLogin(heap[this], loginTime, now), now)

AsSoftDeleted(this) ==
    \E now1 \in Readings(clock) : \E now2 \in Readings(now1) :
        Transition("asSoftDeleted", this,
                   asSoftDeleted(heap[this], now1, now2), now2)

WithVerifiedEmail(this) ==
    \E now1 \in Readings(clock) : \E now2 \in Readings(now1) :
        Transition("withVerifiedEmail", this,
                   withVerifiedEmail(heap[this], now1, now2), now2)

WithPasswordHash(this, newPasswordHash) ==
    \E now \in Readings(clock) :
        Transition("withPasswordHash", this,
                   withPasswordHash(heap[this], newPasswordHash, now), now)

AsSuspended(this) ==
    \E now \in Readings(clock) :
        Transition("asSuspended", this, asSuspended(heap[this], now), now)

AsReactivated(this) ==
    \E now \in Readings(clock) :
        Transition("asReactivated", this, asReactivated(heap[this], now), now)

Query(op, this, arg, out) ==
    /\ lastCall' = CredentialCall(op, this, arg, out)
    /\ UNCHANGED <<heap, made, clock, outsideCredential>>

Validate(this) == Query("validate", this, 0, validate(heap, this))

CanLogin(this) == Query("canLogin", this, 0, Return(canLogin(heap[this])))

Equals(this, other) ==
    Query("equals", this, other, Return(equals(heap[this], other)))

NextCredential ==
    \/ \E this \in Refs : WithLastLogin(this, clock)
    \/ \E this \in Refs : AsSoftDeleted(this)
    \/ \E this \in Refs : WithVerifiedEmail(this)
    \/ \E this \in Refs, newPasswordHash \in NewHashes :
          WithPasswordHash(this, newPasswordHash)
    \/ \E this \in Refs : AsSuspended(this)
    \/ \E this \in Refs : AsReactivated(this)
    \/ Validate(Newest)
    \/ CanLogin(Newest)
    \/ \E other \in Others(Newest) : Equals(Newest, other)

SpecCredential == InitCredential /\ [][NextCredential]_vars

NextValidate ==
    \/ Validate(Newest)
    \/ CanLogin(Newest)

SpecValidate == InitValidate /\ [][NextValidate]_vars

(***************************************************************************)
(* The life of one account: a credential built without a status, valid,    *)
(* for the local provider or another, then any transitions, with any       *)
(* password hash a caller can pass, and validate on the latest instance    *)
(***************************************************************************)
\* @Builder.Default of the field status
DefaultStatus == "ACTIVE"

\* Credential.builder()...build() with no call of status(...), deletedAt(...)
Fresh ==
    {Built("u1", <<"a">>, <<"h">>, "LOCAL", NULL, DefaultStatus, NoInstant),
     [Built("u1", <<"a">>, NULL, "GOOGLE", <<"s">>, DefaultStatus, NoInstant)
         EXCEPT !.mfaEnabled = TRUE]}

\* what a caller can pass to withPasswordHash
AnyHashes == {NULL, <<" ">>, <<"n">>}

InitLifecycle ==
    /\ \E c \in Fresh : heap = <<c>>
    /\ made = <<Origin>>
    /\ clock = 0
    /\ lastCall = NoCredentialCall
    /\ IdleHasher
    /\ IdleEquals
    /\ IdleThreads
    /\ IdleServices

NextLifecycle ==
    \/ \E this \in Refs : WithLastLogin(this, clock)
    \/ \E this \in Refs : AsSoftDeleted(this)
    \/ \E this \in Refs : WithVerifiedEmail(this)
    \/ \E this \in Refs, newPasswordHash \in AnyHashes :
          WithPasswordHash(this, newPasswordHash)
    \/ \E this \in Refs : AsSuspended(this)
    \/ \E this \in Refs : AsReactivated(this)
    \/ Validate(Newest)

SpecLifecycle == InitLifecycle /\ [][NextLifecycle]_vars

(***************************************************************************)
(* The login flow the hasher documents, on a credential: verify, then if   *)
(* needsRehash, hash again and store the new string with withPasswordHash  *)
(***************************************************************************)
\* what getFromDatabase() can hold at first: a hash under the policy costs
\* or under older ones
FlowHashes ==
    {Join(PolicySegs),
     Join(WellFormedSegs(8, 1, 1, RowSalt, RowPassword)),
     Join(WellFormedSegs(MEMORY, ITERATIONS, PARALLELISM, RowSalt, <<"b">>)),
     Join(WellFormedSegs(8, 1, 1, RowSalt, <<"b">>))}

FlowPasswords == {RowPassword, <<"b">>}

InitFlow ==
    /\ \E storedHash \in FlowHashes :
          heap = <<Built("u1", <<"a">>, storedHash, "LOCAL", NULL, "ACTIVE",
                         NoInstant)>>
    /\ made = <<Origin>>
    /\ clock = 0
    /\ lastCall = NoCredentialCall
    /\ IdleHasher
    /\ IdleEquals
    /\ IdleThreads
    /\ IdleServices

\* if (hasher.verify(storedHash, password)) {
\*     if (hasher.needsRehash(storedHash)) { updateDatabase(hasher.hash(password)) }
\* }, the update being credential.withPasswordHash(newHash)
LoginFlow(this, password, salt, now) ==
    LET storedHash == heap[this].passwordHash
        verified == verify(storedHash, password)
        outdated == needsRehash(storedHash)
        newHash == hash(password, salt)
        b == build(heap, this, withPasswordHash(heap[this], newHash.value, now))
    IN IF Thrown(verified) \/ ~verified.value
       THEN /\ lastCall' = CredentialCall("login", this, password, verified)
            /\ UNCHANGED <<heap, made, clock, outsideCredential>>
       ELSE IF Thrown(outdated) \/ ~outdated.value
       THEN /\ lastCall' = CredentialCall("login", this, password, outdated)
            /\ UNCHANGED <<heap, made, clock, outsideCredential>>
       ELSE /\ Returned(newHash)
            /\ Len(heap) < MaxInstances
            /\ heap' = b.heap
            /\ made' = Append(made, [op |-> "rehash", from |-> this,
                                     since |-> clock])
            /\ clock' = now
            /\ lastCall' = CredentialCall("login", this, password, outdated)
            /\ UNCHANGED outsideCredential

NextFlow ==
    \E password \in FlowPasswords, salt \in Salts, now \in Readings(clock) :
        LoginFlow(Newest, password, salt, now)

SpecFlow == InitFlow /\ [][NextFlow]_vars

(***************************************************************************)
(* Threads sharing one Argon2Hasher: each runs one call, statement by      *)
(* statement; its arguments and locals are in its frame, the objects it    *)
(* creates with `new` are its own, the SecureRandom is the hasher's field. *)
(***************************************************************************)
\* threads calling the hasher at once
NumThreads == 2

Threads == 1..NumThreads

ThreadPasswords == {<<"a">>, <<"b">>}

\* stored strings: a hash of RowPassword under the policy costs, and no hash
ThreadHashes ==
    {Join(PolicySegs),
     <<"n", "o", "t", "-", "a", "-", "h", "a", "s", "h">>}

Frame(op, password, encodedHash) ==
    [op |-> op, password |-> password, encodedHash |-> encodedHash,
     salt |-> <<>>, components |-> NoComponents, generator |-> 0,
     bytes |-> <<>>, out |-> Return(FALSE)]

NoFrame == Frame("none", NULL, NULL)

\* a generator every call reuses, as a field of the hasher would be
sharedGenerator(gens, params) ==
    [generators |-> IF gens = <<>> THEN <<[params |-> params]>>
                    ELSE [gens EXCEPT ![1] = [params |-> params]],
     ref |-> 1]

\* new Argon2BytesGenerator() followed by init(params): a generator of the
\* call's own, with the reference to it
newGenerator(gens, params) ==
    [generators |-> Append(gens, [params |-> params]), ref |-> Len(gens) + 1]

InitThreads ==
    /\ pc = [self \in Threads |-> "ready"]
    /\ frame = [self \in Threads |-> NoFrame]
    /\ randomState = 0
    /\ generators = <<>>
    /\ IdleHasher
    /\ IdleEquals
    /\ IdleCredential
    /\ IdleServices

outsideThreads ==
    <<stored, call, earlier, equalsVars, credentialVars, serviceVars>>

\* self goes to label `to` with its frame changed to f
Step(self, to, f) ==
    /\ pc' = [pc EXCEPT ![self] = to]
    /\ frame' = [frame EXCEPT ![self] = f]
    /\ UNCHANGED outsideThreads

Finish(self, out) ==
    Step(self, "done", [frame[self] EXCEPT !.out = out])

StartHash(self, password) ==
    /\ pc[self] = "ready"
    /\ Step(self, "hash_salt", Frame("hash", password, NULL))
    /\ UNCHANGED <<randomState, generators>>

StartVerify(self, encodedHash, password) ==
    /\ pc[self] = "ready"
    /\ Step(self, "verify_parse", Frame("verify", password, encodedHash))
    /\ UNCHANGED <<randomState, generators>>

StartNeedsRehash(self, encodedHash) ==
    /\ pc[self] = "ready"
    /\ Step(self, "rehash_parse", Frame("needsRehash", NULL, encodedHash))
    /\ UNCHANGED <<randomState, generators>>

\* byte[] salt = new byte[SALT_LENGTH]; this.secureRandom.nextBytes(salt);
HashSalt(self, salt) ==
    /\ pc[self] = "hash_salt"
    /\ randomState' = randomState + 1
    /\ Step(self, "hash_init", [frame[self] EXCEPT !.salt = salt])
    /\ UNCHANGED generators

\* params = ...build(); generator = new Argon2BytesGenerator(); init(params)
HashInit(self) ==
    LET params == Argon2Parameters(frame[self].salt, ITERATIONS, MEMORY, PARALLELISM)
        g == newGenerator(generators, params)
    IN /\ pc[self] = "hash_init"
       /\ IF generatorInit(params) # "none"
          THEN /\ Finish(self, Throw(generatorInit(params)))
               /\ UNCHANGED generators
          ELSE /\ generators' = g.generators
               /\ Step(self, "hash_generate", [frame[self] EXCEPT !.generator = g.ref])
       /\ UNCHANGED randomState

\* hash = new byte[HASH_LENGTH]; generator.generateBytes(password..., hash)
HashGenerate(self) ==
    LET f == frame[self]
    IN /\ pc[self] = "hash_generate"
       /\ IF f.password = NULL THEN Finish(self, Throw(NPE))
          ELSE Step(self, "hash_encode",
                    [f EXCEPT !.bytes = generateBytes(f.password,
                                            generators[f.generator].params,
                                            HASH_LENGTH)])
       /\ UNCHANGED <<randomState, generators>>

\* return encodeHash(salt, hash)
HashEncode(self) ==
    /\ pc[self] = "hash_encode"
    /\ Finish(self, Return(encodeHash(frame[self].salt, frame[self].bytes)))
    /\ UNCHANGED <<randomState, generators>>

\* components = parseHash(encodedHash), in verify
VerifyParse(self) ==
    LET parsed == parseHash(frame[self].encodedHash)
    IN /\ pc[self] = "verify_parse"
       /\ IF parsed.exc # "none" THEN Finish(self, Throw(parsed.exc))
          ELSE Step(self, "verify_init",
                    [frame[self] EXCEPT !.components = parsed.components])
       /\ UNCHANGED <<randomState, generators>>

\* generator = new Argon2BytesGenerator(); generator.init(components.params)
VerifyInit(self) ==
    LET params == frame[self].components.params
        g == newGenerator(generators, params)
    IN /\ pc[self] = "verify_init"
       /\ IF generatorInit(params) # "none"
          THEN /\ Finish(self, Throw(generatorInit(params)))
               /\ UNCHANGED generators
          ELSE /\ generators' = g.generators
               /\ Step(self, "verify_generate",
                       [frame[self] EXCEPT !.generator = g.ref])
       /\ UNCHANGED randomState

\* actualHash = new byte[...]; generator.generateBytes(password..., actualHash)
VerifyGenerate(self) ==
    LET f == frame[self]
    IN /\ pc[self] = "verify_generate"
       /\ IF f.password = NULL THEN Finish(self, Throw(NPE))
          ELSE IF Len(f.components.hash) < 4
          THEN Finish(self, Throw("IllegalStateException"))
          ELSE Step(self, "verify_compare",
                    [f EXCEPT !.bytes = generateBytes(f.password,
                                            generators[f.generator].params,
                                            Len(f.components.hash))])
       /\ UNCHANGED <<randomState, generators>>

\* return constantTimeEquals(components.hash, actualHash)
VerifyCompare(self) ==
    /\ pc[self] = "verify_compare"
    /\ Finish(self, Return(constantTimeEquals(frame[self].components.hash,
                                              frame[self].bytes)))
    /\ UNCHANGED <<randomState, generators>>

\* components = parseHash(encodedHash), in needsRehash
RehashParse(self) ==
    LET parsed == parseHash(frame[self].encodedHash)
    IN /\ pc[self] = "rehash_parse"
       /\ IF parsed.exc # "none" THEN Finish(self, Throw(parsed.exc))
          ELSE Step(self, "rehash_compare",
                    [frame[self] EXCEPT !.components = parsed.components])
       /\ UNCHANGED <<randomState, generators>>

\* return components.memory != MEMORY || ...
RehashCompare(self) ==
    LET components == frame[self].components
    IN /\ pc[self] = "rehash_compare"
       /\ Finish(self, Return(components.memory # MEMORY
                              \/ components.iterations # ITERATIONS
                              \/ components.parallelism # PARALLELISM))
       /\ UNCHANGED <<randomState, generators>>

NextThreads ==
    \/ \E self \in Threads, password \in ThreadPasswords : StartHash(self, password)
    \/ \E self \in Threads, encodedHash \in ThreadHashes,
          password \in ThreadPasswords : StartVerify(self, encodedHash, password)
    \/ \E self \in Threads, encodedHash \in ThreadHashes :
          StartNeedsRehash(self, encodedHash)
    \/ \E self \in Threads, salt \in Salts : HashSalt(self, salt)
    \/ \E self \in Threads : HashInit(self)
    \/ \E self \in Threads : HashGenerate(self)
    \/ \E self \in Threads : HashEncode(self)
    \/ \E self \in Threads : VerifyParse(self)
    \/ \E self \in Threads : VerifyInit(self)
    \/ \E self \in Threads : VerifyGenerate(self)
    \/ \E self \in Threads : VerifyCompare(self)
    \/ \E self \in Threads : RehashParse(self)
    \/ \E self \in Threads : RehashCompare(self)

SpecThreads == InitThreads /\ [][NextThreads]_vars

(***************************************************************************)
(* AuthService over UsersService (NestJS): register and login.  A string   *)
(* is a TLA+ string; a user is the record of the fields the calls read.    *)
(* argon2 is the node library: its hash is a function of password and      *)
(* salt, kept symbolic.                                                    *)
(***************************************************************************)
\* most users in the users array
MaxUsers == 3

\* the JavaScript value undefined, where a password hash is expected
Undefined == [id |-> "undefined", salt |-> 0, digest |-> <<>>]

\* argon2.hash(password) when the library drew `salt`
argon2Hash(password, salt) ==
    [id |-> "argon2id", salt |-> salt, digest |-> <<password, salt>>]

\* argon2.verify(digest, password): a digest that is no string cannot be
\* deserialized and the call is rejected
argon2Verify(digest, password) ==
    IF digest.id = "undefined" THEN Throw("TypeError")
    ELSE Return(digest = argon2Hash(password, digest.salt))

\* the properties of class User that carry @Expose()
UserExposed == {"id", "email"}

\* plainToClass(User, plain, { excludeExtraneousValues: true }): a property
\* without @Expose() is left out of the instance
plainToClassUser(plain) ==
    [id |-> IF "id" \in UserExposed THEN plain.id ELSE "undefined",
     email |-> IF "email" \in UserExposed THEN plain.email ELSE "undefined",
     password_hash |-> IF "password_hash" \in UserExposed
                       THEN plain.password_hash ELSE Undefined]

SeedPassword == "p"

\* the user the users array is initialised with
SeedUser ==
    [id |-> "1", email |-> "t", password_hash |-> argon2Hash(SeedPassword, 0)]

RegisterEmails == {"t", "n"}
LoginEmails == {"t", "n", "x"}
LoginPasswords == {"p", "q"}

\* this.users.find(user => user.email === email): the index of the first
\* match, 0 for undefined
find(email) ==
    IF \E i \in 1..Len(users) : users[i].email = email
    THEN CHOOSE i \in 1..Len(users) :
            /\ users[i].email = email
            /\ \A j \in 1..(i - 1) : users[j].email # email
    ELSE 0

findByEmailForValidation(email) ==
    IF find(email) = 0 THEN Throw("NotFoundException")
    ELSE Return(users[find(email)])

validateUser(email, password) ==
    LET userInDb == findByEmailForValidation(email)
        isValid == argon2Verify(userInDb.value.password_hash, password)
    IN IF Thrown(userInDb) THEN userInDb
       ELSE IF Thrown(isValid) THEN isValid
       ELSE IF ~isValid.value THEN Throw("UnauthorizedException")
       ELSE Return([id |-> userInDb.value.id, email |-> userInDb.value.email])

\* jwtService.sign({ sub, email }): the token stands for its payload
generateToken(sub, email) == [sub |-> sub, email |-> email]

Session(op, email, password, signed, out) ==
    [op |-> op, email |-> email, password |-> password, signed |-> signed,
     out |-> out]

InitAuth ==
    /\ users = <<SeedUser>>
    /\ secrets = <<SeedPassword>>
    /\ session = NoSession
    /\ issued = {}
    /\ IdleDatabase
    /\ IdleHasher
    /\ IdleEquals
    /\ IdleCredential
    /\ IdleThreads

outsideAuth ==
    <<stored, call, earlier, equalsVars, credentialVars, threadVars,
      databaseVars>>

\* register(userData), with usersService.create
Register(id, email, password, salt) ==
    LET passwordHash == argon2Hash(password, salt)
        userToCreate ==
            plainToClassUser([id |-> id, email |-> email, password |-> password,
                              password_hash |-> passwordHash])
    IN /\ Len(users) < MaxUsers
       /\ users' = Append(users, userToCreate)
       /\ secrets' = Append(secrets, password)
       /\ session' = Session("register", email, password, FALSE, Return(201))
       /\ UNCHANGED <<issued, outsideAuth>>

\* login(email, password)
Login(email, password) ==
    LET user == validateUser(email, password)
        token == generateToken(user.value.id, user.value.email)
    IN /\ session' = Session("login", email, password, Returned(user),
                             IF Thrown(user) THEN user ELSE Return(token))
       /\ issued' = IF Thrown(user) THEN issued ELSE issued \cup {token}
       /\ UNCHANGED <<users, secrets, outsideAuth>>

NextAuth ==
    \/ \E email \in RegisterEmails, password \in LoginPasswords, salt \in 1..NumSalts :
          Register("2", email, password, salt)
    \/ \E email \in LoginEmails, password \in LoginPasswords : Login(email, password)

SpecAuth == InitAuth /\ [][NextAuth]_vars

(***************************************************************************)
(* DatabaseService over a pg Pool.  Each await is a step: the callers of   *)
(* query interleave at them.  A client checked out is known by the number  *)
(* of its checkout; pool.releases counts the calls of release() on it.     *)
(* pool.end() resolves once no client is checked out.                      *)
(***************************************************************************)
\* callers of query at the same time
NumCallers == 2
\* most checkouts of a client over a run
MaxCheckouts == 3

\* the lifecycle hook is task 0, the callers of query are 1..NumCallers
Hook == 0
Callers == 1..NumCallers

TaskAt(at, client) == [at |-> at, client |-> client]

InitDatabase ==
    /\ pool = NoPool
    /\ task = [t \in {Hook} \cup Callers |->
                  IF t = Hook THEN TaskAt("onModuleInit", 0) ELSE TaskAt("idle", 0)]
    /\ IdleAuth
    /\ IdleHasher
    /\ IdleEquals
    /\ IdleCredential
    /\ IdleThreads

outsideDatabase ==
    <<stored, call, earlier, equalsVars, credentialVars, threadVars, authVars>>

\* await this.pool.connect() resolved: one more client is checked out
connect(p) ==
    [p EXCEPT !.out = @ \cup {Len(p.releases) + 1},
              !.releases = Append(@, 0)]

\* client.release()
release(p, client) ==
    [p EXCEPT !.out = @ \ {client}, !.releases[client] = @ + 1]

Go(t, at, client) == task' = [task EXCEPT ![t] = TaskAt(at, client)]

\* onModuleInit up to the try: the environment check, then new Pool(...)
CreatePool(envComplete) ==
    /\ task[Hook].at = "onModuleInit"
    /\ IF envComplete
       THEN pool' = [pool EXCEPT !.state = "open"] /\ Go(Hook, "connect", 0)
       ELSE UNCHANGED pool /\ Go(Hook, "failed", 0)
    /\ UNCHANGED outsideDatabase

\* const client = await this.pool.connect(), in the try
CheckConnect(resolved) ==
    /\ task[Hook].at = "connect"
    /\ IF resolved
       THEN pool' = connect(pool) /\ Go(Hook, "select", Len(pool.releases) + 1)
       ELSE UNCHANGED pool /\ Go(Hook, "catch", 0)
    /\ UNCHANGED outsideDatabase

\* await client.query('SELECT 1'); client.release(): the release is the
\* statement after the query, in the try
CheckSelect(resolved) ==
    /\ task[Hook].at = "select"
    /\ IF resolved
       THEN /\ pool' = release(pool, task[Hook].client)
            /\ Go(Hook, "done", task[Hook].client)
       ELSE UNCHANGED pool /\ Go(Hook, "catch", task[Hook].client)
    /\ UNCHANGED outsideDatabase

\* catch: await this.pool.end() is called
CheckCatch ==
    /\ task[Hook].at = "catch"
    /\ pool' = [pool EXCEPT !.state = "ending"]
    /\ Go(Hook, "ending", task[Hook].client)
    /\ UNCHANGED outsideDatabase

\* pool.end() resolved; throw new InternalServerErrorException(...)
CheckThrow ==
    /\ task[Hook].at = "ending"
    /\ pool.out = {}
    /\ pool' = [pool EXCEPT !.state = "ended"]
    /\ Go(Hook, "failed", task[Hook].client)
    /\ UNCHANGED outsideDatabase

\* a call of query(text, params), once the module is initialised
QueryCall(t) ==
    /\ task[Hook].at = "done"
    /\ task[t].at \in {"idle", "returned", "thrown"}
    /\ Len(pool.releases) + Cardinality({u \in Callers : task[u].at = "connect"})
          < MaxCheckouts
    /\ Go(t, "connect", 0)
    /\ UNCHANGED <<pool, outsideDatabase>>

\* const client = await this.pool.connect(), before the try
QueryConnect(t, resolved) ==
    /\ task[t].at = "connect"
    /\ IF resolved
       THEN pool' = connect(pool) /\ Go(t, "try", Len(pool.releases) + 1)
       ELSE UNCHANGED pool /\ Go(t, "thrown", 0)
    /\ UNCHANGED outsideDatabase

\* const result = await client.query(text, params), in the try
QueryStatement(t, resolved) ==
    /\ task[t].at = "try"
    /\ Go(t, IF resolved THEN "finally return" ELSE "finally throw",
          task[t].client)
    /\ UNCHANGED <<pool, outsideDatabase>>

\* finally { client.release() }, then the return or the rethrow
QueryFinally(t) ==
    /\ task[t].at \in {"finally return", "finally throw"}
    /\ pool' = release(pool, task[t].client)
    /\ Go(t, IF task[t].at = "finally return" THEN "returned" ELSE "thrown",
          task[t].client)
    /\ UNCHANGED outsideDatabase

NextDatabase ==
    \/ \E envComplete \in BOOLEAN : CreatePool(envComplete)
    \/ \E resolved \in BOOLEAN : CheckConnect(resolved)
    \/ \E resolved \in BOOLEAN : CheckSelect(resolved)
    \/ CheckCatch
    \/ CheckThrow
    \/ \E t \in Callers : QueryCall(t)
    \/ \E t \in Callers, resolved \in BOOLEAN : QueryConnect(t, resolved)
    \/ \E t \in Callers, resolved \in BOOLEAN : QueryStatement(t, resolved)
    \/ \E t \in Callers : QueryFinally(t)

SpecDatabase == InitDatabase /\ [][NextDatabase]_vars

(***************************************************************************)
(* Properties of hash, verify, needsRehash and the encoded string          *)
(***************************************************************************)
Policy(row) == row.m = MEMORY /\ row.t = ITERATIONS /\ row.p = PARALLELISM

\* costs under which a hash can have been created at all
Creatable(row) ==
    generatorInit(Argon2Parameters(row.salt, row.t, row.m, row.p)) = "none"

Malformed(row) == row.segCount # 6 \/ ~row.numeric \/ ~row.b64ok

PolicyPrefix ==
    <<"$", "a", "r", "g", "o", "n", "2", "i", "d", "$", "v", "=", "1", "9",
      "$", "m", "=", "6", "5", "5", "3", "6", ",", "t", "=", "3", ",",
      "p", "=", "4", "$">>

PolicyParamSeg ==
    <<"m", "=", "6", "5", "5", "3", "6", ",", "t", "=", "3", ",", "p", "=", "4">>

\* C1: verifying a password Q against the string hash returned for a
\* password P returns true exactly when Q = P.
C1_VerifyOwnHash ==
    (call.op = "verify" /\ stored.origin = "hash" /\ call.password # NULL)
        => call.out = Return(call.password = stored.pw)

C1_Witness ==
    /\ call.op = "verify"
    /\ stored.origin = "hash"
    /\ call.password = stored.pw
    /\ call.out = Return(TRUE)

\* C2: needsRehash returns false for a string hash has just returned.
C2_FreshHashNeedsNoRehash ==
    (call.op = "needsRehash" /\ stored.origin = "hash")
        => call.out = Return(FALSE)

\* C3: needsRehash returns true for every well-formed string whose m, t or
\* p differs from the policy constants.
C3_DifferingCostsNeedRehash ==
    (call.op = "needsRehash" /\ stored.family = "wellformed" /\ ~Policy(stored))
        => call.out = Return(TRUE)

\* C4: verify derives with the costs and salt written in the string: a
\* well-formed string created from password P under any costs, the policy's
\* or others, verifies exactly P.
C4_VerifyUsesParsedCosts ==
    (/\ call.op = "verify"
     /\ stored.origin = "db"
     /\ stored.family = "wellformed"
     /\ Creatable(stored)
     /\ call.password # NULL)
        => call.out = Return(call.password = stored.pw)

C4_Witness ==
    /\ call.op = "verify"
    /\ stored.origin = "db"
    /\ stored.family = "wellformed"
    /\ Creatable(stored)
    /\ ~Policy(stored)
    /\ call.password = stored.pw
    /\ call.out = Return(TRUE)

\* C5: verify and needsRehash end in an error, never in a boolean, for a
\* string with a wrong segment structure, a non-numeric cost or invalid
\* base64.
C5_MalformedAlwaysThrows ==
    (/\ call.op \in {"verify", "needsRehash"}
     /\ stored.origin = "db"
     /\ Malformed(stored))
        => Thrown(call.out)

\* C6: a string with too few or too many "$"-separated segments is never
\* parsed into costs and bytes: parsing it ends in an error.
C6_WrongSegmentCountRejected ==
    (/\ call.op \in {"reencode", "needsRehash"}
     /\ stored.origin = "db"
     /\ stored.segCount # 6)
        => Thrown(call.out)

\* C7: hash rejects a null or empty password, in both hasher implementations:
\* the call ends in an error and returns no encoded hash.
C7_HashRejectsNullOrEmpty ==
    (call.op \in {"hash", "jvmHash"} /\ call.password \in {NULL, <<>>})
        => Thrown(call.out)

\* C8: verify rejects a null or empty password and a null or empty encoded
\* hash, in both hasher implementations: the call ends in an error and
\* returns no boolean.
C8_VerifyRejectsNullOrEmpty ==
    (/\ call.op \in {"verify", "jvmVerify"}
     /\ (call.password \in {NULL, <<>>} \/ stored.text \in {NULL, <<>>}))
        => Thrown(call.out)

\* C9: every string hash returns is $argon2id$v=19$m=65536,t=3,p=4$ followed
\* by the 22 base64 characters of the 16-byte salt, a "$" and the 43 base64
\* characters of a 32-byte hash, with no padding and no other "$".
C9_HashOutputForm ==
    (call.op = "hash" /\ Returned(call.out)) =>
        LET v == call.out.value
        IN /\ Len(v) = 97
           /\ SubSeq(v, 1, 31) = PolicyPrefix
           /\ \A i \in 32..53 : v[i] \in B64Chars
           /\ v[54] = "$"
           /\ \A i \in 55..97 : v[i] \in B64Chars
           /\ Len(stored.salt) = SALT_LENGTH
           /\ decode(SubSeq(v, 32, 53)).exc = "none"
           /\ decode(SubSeq(v, 32, 53)).bytes = stored.salt
           /\ decode(SubSeq(v, 55, 97)).exc = "none"
           /\ Len(decode(SubSeq(v, 55, 97)).bytes) = HASH_LENGTH

C9_Witness ==
    /\ call.op = "hash"
    /\ Returned(call.out)
    /\ call.password # <<>>
    /\ stored.text = call.out.value

DeclaredParams(row) ==
    [parseHash(row.text).components.params
        EXCEPT !.version = parseInt(substring2(row.segs[3])).value]

\* C21: verify reads the algorithm tag and the version from the string: it
\* ends in an error for a tag other than argon2id, and otherwise compares
\* with the hash derived under the version the string declares.
C21_VerifyHonoursTagAndVersion ==
    (call.op = "verify" /\ stored.family = "foreign" /\ call.password # NULL) =>
        IF stored.segs[2] # ARGON2ID THEN Thrown(call.out)
        ELSE /\ Returned(call.out)
             /\ call.out.value =
                    constantTimeEquals(decode(stored.segs[6]).bytes,
                        generateBytes(call.password, DeclaredParams(stored),
                                      HASH_LENGTH))

\* C11: two calls of hash on one password that drew different salts returned
\* different strings, and the password verifies against each of them.
C11_TwoHashesDifferAndVerify ==
    (/\ earlier.origin = "hash"
     /\ stored.origin = "hash"
     /\ earlier.pw = stored.pw
     /\ earlier.salt # stored.salt)
        => /\ earlier.text # stored.text
           /\ verify(earlier.text, stored.pw) = Return(TRUE)
           /\ verify(stored.text, stored.pw) = Return(TRUE)

C11_Witness ==
    /\ earlier.origin = "hash"
    /\ stored.origin = "hash"
    /\ earlier.pw = stored.pw
    /\ earlier.salt # stored.salt
    /\ call.op = "hash"
    /\ call.out = Return(stored.text)

\* C12: constantTimeEquals returns true exactly when the two arrays have the
\* same length and the same byte at every index, negative bytes included.
C12_EqualIffSameBytes ==
    equal.done =>
        equal.result = (/\ Len(expectedBytes) = Len(actualBytes)
                        /\ \A i \in 1..Len(expectedBytes) :
                              expectedBytes[i] = actualBytes[i])

C12_Witness ==
    /\ equal = Compared(TRUE)
    /\ Len(expectedBytes) = MaxBytes
    /\ \E i \in 1..Len(expectedBytes) : expectedBytes[i] < 0

\* the indexes 0..n-1 in order
Indexes(n) == [k \in 1..n |-> k - 1]

\* C22: for two arrays of equal length n, constantTimeEquals runs the
\* XOR/OR step once for each index 0..n-1, in order, wherever the arrays
\* differ and whether they differ at all: while it runs it has skipped no
\* index, and when it returns it has read all n, so the steps taken are a
\* function of n alone; what it returns is what the bytes decide.
C22_EveryByteInspected ==
    Len(expectedBytes) = Len(actualBytes) =>
        /\ loop.inspected = Indexes(loop.i)
        /\ loop.at = "returned" =>
              /\ loop.inspected = Indexes(Len(expectedBytes))
              /\ loop.returned = constantTimeEquals(expectedBytes, actualBytes)

C22_Witness ==
    /\ loop.at = "returned"
    /\ Len(expectedBytes) = MaxBytes
    /\ Len(actualBytes) = MaxBytes
    /\ expectedBytes[1] # actualBytes[1]
    /\ loop.inspected = Indexes(MaxBytes)
    /\ loop.returned = FALSE

(***************************************************************************)
(* Properties of the login flow                                            *)
(***************************************************************************)
\* C26: a credential is rehashed at most once per policy: the hash a rehash
\* stored needs no rehash, and no login on the credential a rehash produced
\* rehashes again.
C26_RehashedAtMostOnce ==
    \A r \in Refs :
        made[r].op = "rehash" =>
            /\ Returned(needsRehash(heap[r].passwordHash))
            /\ ~needsRehash(heap[r].passwordHash).value
            /\ \A q \in Refs : made[q].from = r => made[q].op # "rehash"

(***************************************************************************)
(* Properties of AuthService                                               *)
(***************************************************************************)
\* login produced a token only for the user found under the email, whose
\* stored hash argon2.verify accepted for the password
TokenOnlyAfterVerification ==
    (session.op = "login" /\ Returned(session.out)) =>
        /\ find(session.email) # 0
        /\ argon2Verify(users[find(session.email)].password_hash,
                        session.password) = Return(TRUE)
        /\ session.out.value =
              generateToken(users[find(session.email)].id, session.email)

\* an unknown email or a password other than the user's own ends login in
\* NotFoundException or UnauthorizedException, with nothing signed
RejectedWithoutToken ==
    (/\ session.op = "login"
     /\ \/ find(session.email) = 0
        \/ secrets[find(session.email)] # session.password) =>
        /\ ~session.signed
        /\ Thrown(session.out)
        /\ session.out.value \in {"NotFoundException", "UnauthorizedException"}

\* C25: login produces a JWT only after validateUser has found the user by
\* email and argon2.verify has returned true for that user's stored hash
\* and the password; for an unknown email or a wrong password no token is
\* generated and NotFoundException or UnauthorizedException is raised.
C25_TokenOnlyForVerifiedUser ==
    TokenOnlyAfterVerification /\ RejectedWithoutToken

(***************************************************************************)
(* Properties of DatabaseService                                           *)
(***************************************************************************)
\* the call task t was making has run to its end, or waits for good
Over(t) ==
    \/ task[t].at \in {"idle", "done", "failed", "returned", "thrown"}
    \/ task[t].at = "ending" /\ pool.out # {}

\* a call of query that is over has released the client it checked out,
\* once
QueryReleasesOnce ==
    \A t \in Callers :
        (Over(t) /\ task[t].client # 0) =>
            /\ task[t].client \notin pool.out
            /\ pool.releases[task[t].client] = 1

\* C30: every client checked out is released exactly once on every path,
\* by query and by the connection check of onModuleInit, whether the
\* statement succeeds or throws; once the calls are over no client is
\* checked out.
C30_EveryClientReleasedOnce ==
    /\ \A c \in 1..Len(pool.releases) : pool.releases[c] <= 1
    /\ QueryReleasesOnce
    /\ (Over(Hook) /\ task[Hook].client # 0) =>
          /\ task[Hook].client \notin pool.out
          /\ pool.releases[task[Hook].client] = 1
    /\ (\A t \in {Hook} \cup Callers : Over(t)) => pool.out = {}

(***************************************************************************)
(* Properties of Credential                                                *)
(***************************************************************************)
TransitionNames ==
    {"withLastLogin", "withVerifiedEmail", "withPasswordHash", "asSuspended",
     "asSoftDeleted", "asReactivated"}

\* the statuses one transition can give a credential
NextStatuses(c) ==
    {asSuspended(c, clock).status, asSoftDeleted(c, clock, clock).status,
     asReactivated(c, clock).status}

\* C23: a credential built without a status is active, and no status is
\* terminal: every instance, whatever its status, is taken to each of the
\* three statuses by one transition, and asReactivated gives an active
\* instance also when called on a deleted one.
C23_ActiveAtFirstNoTerminalStatus ==
    \A r \in Refs :
        /\ made[r].op = "build" => heap[r].status = "ACTIVE"
        /\ NextStatuses(heap[r]) = CredentialStatus
        /\ made[r].op = "asReactivated" =>
              heap[r].status = "ACTIVE" /\ canLogin(heap[r])
        /\ made[r].op = "asSuspended" => heap[r].status = "SUSPENDED"
        /\ made[r].op = "asSoftDeleted" => heap[r].status = "DELETED"

C23_Witness ==
    \E r \in Refs :
        /\ made[1].op = "build"
        /\ heap[1].status = "ACTIVE"
        /\ made[r].op = "asReactivated"
        /\ heap[made[r].from].status = "DELETED"
        /\ heap[r].status = "ACTIVE"

\* C27: on every credential reached from a newly built active one, an
\* active status goes with an absent deletedAt; a transition changes
\* deletedAt only if it is asSoftDeleted, which sets it, or asReactivated,
\* which clears it; asSuspended keeps it, also on a soft-deleted credential.
C27_ActiveMeansNotDeleted ==
    \A r \in Refs :
        /\ heap[r].status = "ACTIVE" => heap[r].deletedAt = NoInstant
        /\ made[r].op # "build" =>
              LET before == heap[made[r].from].deletedAt
                  after == heap[r].deletedAt
              IN /\ after # before =>
                       made[r].op \in {"asSoftDeleted", "asReactivated"}
                 /\ made[r].op = "asSoftDeleted" => after # NoInstant
                 /\ made[r].op = "asReactivated" => after = NoInstant
                 /\ made[r].op = "asSuspended" => after = before

C27_Witness ==
    \E r \in Refs :
        /\ made[r].op = "asSuspended"
        /\ heap[made[r].from].status = "DELETED"
        /\ heap[made[r].from].deletedAt # NoInstant
        /\ heap[r].status = "SUSPENDED"
        /\ heap[r].deletedAt = heap[made[r].from].deletedAt

Valid(r) == Returned(validate(heap, r))

\* C28: a transition other than withPasswordHash takes a credential that
\* passes validate() to one that passes it; withPasswordHash stores what it
\* is given unchecked, and its result on such a credential passes validate()
\* exactly when the provider is not LOCAL or the new hash is neither null
\* nor blank.
C28_TransitionsKeepValidity ==
    \A r \in Refs :
        (made[r].op # "build" /\ Valid(made[r].from)) =>
            IF made[r].op = "withPasswordHash"
            THEN Valid(r) <=>
                    \/ heap[r].authProvider # "LOCAL"
                    \/ /\ heap[r].passwordHash # NULL
                       /\ ~isBlank(heap[r].passwordHash)
            ELSE Valid(r)

C28_Witness ==
    /\ lastCall.op = "validate"
    /\ Thrown(lastCall.out)
    /\ made[lastCall.receiver].op = "withPasswordHash"
    /\ Valid(made[lastCall.receiver].from)
    /\ heap[lastCall.receiver].authProvider = "LOCAL"
    /\ heap[lastCall.receiver].passwordHash = <<" ">>

\* the fields each transition sets
Named(op) ==
    IF op = "withLastLogin" THEN {"lastLoginAt", "updatedAt"}
    ELSE IF op = "withVerifiedEmail" THEN {"emailVerifiedAt", "updatedAt"}
    ELSE IF op = "withPasswordHash" THEN {"passwordHash", "updatedAt"}
    ELSE IF op = "asSuspended" THEN {"status", "updatedAt"}
    ELSE {"status", "deletedAt", "updatedAt"}

NeverNamed ==
    {"id", "email", "authProvider", "authSubject", "mfaEnabled", "createdAt"}

\* C29: the instance a transition builds agrees with its receiver on every
\* field but the ones the transition names, so that id, email,
\* authProvider, authSubject, mfaEnabled and createdAt are those of the
\* first instance after any chain of transitions.
C29_UnnamedFieldsCopied ==
    \A r \in Refs :
        /\ made[r].op # "build" =>
              \A f \in (DOMAIN heap[r]) \ Named(made[r].op) :
                  heap[r][f] = heap[made[r].from][f]
        /\ \A f \in NeverNamed : heap[r][f] = heap[1][f]
        /\ DOMAIN heap[r] = DOMAIN heap[1]

C29_Witness ==
    \E r \in Refs :
        /\ made[r].op = "withPasswordHash"
        /\ made[r].from > 1
        /\ made[made[r].from].op = "asSoftDeleted"
        /\ heap[r].passwordHash # heap[1].passwordHash
        /\ heap[r].deletedAt # NoInstant
        /\ heap[r].authProvider = "GOOGLE"
        /\ heap[r].mfaEnabled

UpperCase == {"A"}

\* C24: a credential that validate() lets through holds an email without
\* an uppercase character.
C24_ValidatedEmailIsLowercase ==
    (lastCall.op = "validate" /\ Returned(lastCall.out)) =>
        \A i \in 1..Len(heap[lastCall.receiver].email) :
            heap[lastCall.receiver].email[i] \notin UpperCase

\* C13: canLogin returns true exactly when the status is active and the
\* deleted timestamp is absent; it returns false for a suspended or deleted
\* status and for a set deletedAt, whatever the other fields are.
C13_CanLoginIffActiveAndNotDeleted ==
    lastCall.op = "canLogin" =>
        LET c == heap[lastCall.receiver]
        IN /\ c.status \in {"SUSPENDED", "DELETED"} => lastCall.out = Return(FALSE)
           /\ c.deletedAt # NoInstant => lastCall.out = Return(FALSE)
           /\ lastCall.out = Return(TRUE)
                  <=> (c.status = "ACTIVE" /\ c.deletedAt = NoInstant)

C13_Witness ==
    /\ lastCall.op = "canLogin"
    /\ heap[lastCall.receiver].status = "ACTIVE"
    /\ heap[lastCall.receiver].deletedAt # NoInstant
    /\ heap[lastCall.receiver].authProvider = "GOOGLE"
    /\ lastCall.out = Return(FALSE)

\* C14: no call changes an instance that exists: after a transition every
\* instance, the receiver among them, has the fields it had before, and the
\* result is an instance that did not exist before.
C14_NoTransitionMutatesReceiver ==
    [][/\ \A r \in DOMAIN heap : r \in DOMAIN heap' /\ heap'[r] = heap[r]
       /\ lastCall'.op \in TransitionNames =>
            /\ Returned(lastCall'.out)
            /\ lastCall'.out.value \notin DOMAIN heap
            /\ lastCall'.out.value \in DOMAIN heap']_vars

C14_Witness ==
    /\ lastCall.op = "asSuspended"
    /\ lastCall.out.value # lastCall.receiver
    /\ heap[lastCall.receiver].status = "ACTIVE"
    /\ heap[lastCall.out.value].status = "SUSPENDED"

\* a reading of the clock taken during the call that built instance r
CurrentFor(r, t) == made[r].since <= t /\ t <= clock

\* C15: from any status, asSuspended returns an instance with status
\* suspended, asSoftDeleted one with status deleted and deletedAt the current
\* time, asReactivated one with status active and no deletedAt; the updatedAt
\* of each is the current time.
C15_StatusTransitionsOverwrite ==
    lastCall.op \in {"asSuspended", "asSoftDeleted", "asReactivated"} =>
        /\ Returned(lastCall.out)
        /\ LET r == lastCall.out.value
               c == heap[r]
           IN /\ CurrentFor(r, c.updatedAt)
              /\ lastCall.op = "asSuspended" => c.status = "SUSPENDED"
              /\ lastCall.op = "asSoftDeleted" =>
                    c.status = "DELETED" /\ CurrentFor(r, c.deletedAt)
              /\ lastCall.op = "asReactivated" =>
                    c.status = "ACTIVE" /\ c.deletedAt = NoInstant

C15_Witness ==
    /\ lastCall.op = "asReactivated"
    /\ heap[lastCall.receiver].status = "DELETED"
    /\ heap[lastCall.receiver].deletedAt # NoInstant
    /\ heap[lastCall.out.value].status = "ACTIVE"
    /\ heap[lastCall.out.value].deletedAt = NoInstant
    /\ heap[lastCall.out.value].updatedAt > heap[lastCall.receiver].updatedAt

Absent(s) == s = NULL \/ isBlank(s)

\* C16: validate fails if the id is absent, if the email is absent or blank,
\* if the provider is local and the password hash absent or blank, if the
\* provider is not local and the auth-subject absent or blank; with provider
\* and status set it returns the credential itself exactly when none holds.
C16_ValidateFailsIffRuleViolated ==
    lastCall.op = "validate" =>
        LET c == heap[lastCall.receiver]
            violated ==
                \/ c.id = NoValue
                \/ Absent(c.email)
                \/ c.authProvider = "LOCAL" /\ Absent(c.passwordHash)
                \/ c.authProvider # "LOCAL" /\ Absent(c.authSubject)
        IN /\ violated => Thrown(lastCall.out)
           /\ (c.authProvider \in AuthProvider /\ c.status \in CredentialStatus)
                => (~violated <=> (/\ Returned(lastCall.out)
                                   /\ lastCall.out.value = lastCall.receiver))

C16_Witness ==
    /\ lastCall.op = "validate"
    /\ heap[lastCall.receiver].authProvider = "GOOGLE"
    /\ heap[lastCall.receiver].passwordHash = NULL
    /\ ~Absent(heap[lastCall.receiver].authSubject)
    /\ Returned(lastCall.out)
    /\ lastCall.out.value = lastCall.receiver

\* the rules in the order validate checks them, each with its error
RuleErrors ==
    <<[rule |-> "id", type |-> "NullPointerException",
       message |-> "Credential ID cannot be null"],
      [rule |-> "email", type |-> "NullPointerException",
       message |-> "Email cannot be null"],
      [rule |-> "authProvider", type |-> "NullPointerException",
       message |-> "Auth provider cannot be null"],
      [rule |-> "status", type |-> "NullPointerException",
       message |-> "Status cannot be null"],
      [rule |-> "emailBlank", type |-> "IllegalArgumentException",
       message |-> "Email cannot be blank"],
      [rule |-> "passwordHash", type |-> "IllegalArgumentException",
       message |-> "Password hash is required for LOCAL authentication"],
      [rule |-> "authSubject", type |-> "IllegalArgumentException",
       message |-> "Auth subject is required for OAuth authentication"]>>

Violates(c, rule) ==
    CASE rule = "id" -> c.id = NoValue
      [] rule = "email" -> c.email = NULL
      [] rule = "authProvider" -> c.authProvider = NoValue
      [] rule = "status" -> c.status = NoValue
      [] rule = "emailBlank" -> c.email # NULL /\ isBlank(c.email)
      [] rule = "passwordHash" -> c.authProvider = "LOCAL" /\ Absent(c.passwordHash)
      [] rule = "authSubject" ->
            c.authProvider \in AuthProvider \ {"LOCAL"} /\ Absent(c.authSubject)

ViolatedRules(c) ==
    {i \in DOMAIN RuleErrors : Violates(c, RuleErrors[i].rule)}

FirstRuleReported ==
    LET c == heap[lastCall.receiver]
        first == CHOOSE i \in ViolatedRules(c) : \A j \in ViolatedRules(c) : i <= j
    IN ViolatedRules(c) # {} =>
          /\ Thrown(lastCall.out)
          /\ lastCall.out.value.type = RuleErrors[first].type
          /\ lastCall.out.value.message = RuleErrors[first].message
          /\ \A j \in DOMAIN RuleErrors \ {first} :
                lastCall.out.value.message # RuleErrors[j].message

\* the rules the claim lists: missing id, missing email, blank email, missing
\* password hash for a local provider, missing auth-subject for another one
ListedRules == {"id", "email", "emailBlank", "passwordHash", "authSubject"}

FirstListedRuleReported ==
    LET c == heap[lastCall.receiver]
        listed == {i \in ViolatedRules(c) : RuleErrors[i].rule \in ListedRules}
        first == CHOOSE i \in listed : \A j \in listed : i <= j
    IN listed # {} =>
          /\ Thrown(lastCall.out)
          /\ lastCall.out.value.message = RuleErrors[first].message

\* C17 as stated: a failing validate reports the error of the first violated
\* rule among the five listed ones, and leaves the credential as it was.
C17_FirstListedRuleReported ==
    [][lastCall'.op = "validate" => (heap' = heap /\ FirstListedRuleReported')]_vars

\* C17 amended: a failing validate reports one error, that of the first
\* violated rule in the order of the checks (id, email, provider and status
\* present, email not blank, password hash, auth-subject), different from the
\* error of every other rule, and leaves the credential as it was.
C17_FirstViolatedRuleReported ==
    [][lastCall'.op = "validate" => (heap' = heap /\ FirstRuleReported')]_vars

C17_Witness ==
    /\ lastCall.op = "validate"
    /\ Cardinality(ViolatedRules(heap[lastCall.receiver])) >= 2
    /\ heap[lastCall.receiver].id # NoValue
    /\ isBlank(heap[lastCall.receiver].email)
    /\ heap[lastCall.receiver].authProvider = "LOCAL"
    /\ heap[lastCall.receiver].passwordHash = NULL
    /\ Thrown(lastCall.out)
    /\ lastCall.out.value.message = "Email cannot be blank"

\* C18: equals compares the ids and nothing else: it returns true exactly
\* when the ids are equal, and every instance some chain of transitions has
\* built from a credential is equal to each other one.
C18_EqualityByIdAlone ==
    /\ lastCall.op = "equals" =>
          lastCall.out = Return(heap[lastCall.receiver].id = lastCall.arg.id)
    /\ \A r1 \in Refs, r2 \in Refs : equals(heap[r1], heap[r2])

C18_Witness ==
    /\ lastCall.op = "equals"
    /\ made[lastCall.receiver].op \in {"asSuspended", "asSoftDeleted"}
    /\ lastCall.arg = heap[1]
    /\ lastCall.arg.status = "ACTIVE"
    /\ lastCall.arg.status # heap[lastCall.receiver].status
    /\ lastCall.out = Return(TRUE)

\* instance r was built by asSuspended or asSoftDeleted, or from such an
\* instance by transitions none of which is asReactivated
RECURSIVE Blocked(_)
Blocked(r) ==
    \/ made[r].op \in {"asSuspended", "asSoftDeleted"}
    \/ /\ made[r].op \in {"withLastLogin", "withVerifiedEmail", "withPasswordHash"}
       /\ Blocked(made[r].from)

\* C19: after asSoftDeleted or asSuspended canLogin is false, and it stays
\* false across further transitions other than asReactivated; a transition
\* that turns it from false to true is asReactivated.
C19_NoLoginUntilReactivated ==
    /\ \A r \in Refs : Blocked(r) => ~canLogin(heap[r])
    /\ \A r \in Refs :
          (/\ made[r].op \in TransitionNames
           /\ ~canLogin(heap[made[r].from])
           /\ canLogin(heap[r]))
              => made[r].op = "asReactivated"
    /\ (lastCall.op = "canLogin" /\ Blocked(lastCall.receiver))
          => lastCall.out = Return(FALSE)

C19_Witness ==
    /\ lastCall.op = "canLogin"
    /\ lastCall.out = Return(FALSE)
    /\ made[lastCall.receiver].op = "withLastLogin"
    /\ made[made[lastCall.receiver].from].op = "asSoftDeleted"
    /\ canLogin(heap[made[made[lastCall.receiver].from].from])
(***************************************************************************)
(* Properties of concurrent calls on one hasher                            *)
(***************************************************************************)
\* what each call returns when it is the only one, for every argument (and,
\* for hash, every salt) a thread can have
AloneHash ==
    [password \in ThreadPasswords |-> [salt \in Salts |-> hash(password, salt)]]

AloneVerify ==
    [encodedHash \in ThreadHashes |->
        [password \in ThreadPasswords |-> verify(encodedHash, password)]]

AloneNeedsRehash ==
    [encodedHash \in ThreadHashes |-> needsRehash(encodedHash)]

\* what the call of thread self returns when no other call runs
Alone(self) ==
    LET f == frame[self]
    IN CASE f.op = "hash" -> AloneHash[f.password][f.salt]
         [] f.op = "verify" -> AloneVerify[f.encodedHash][f.password]
         [] f.op = "needsRehash" -> AloneNeedsRehash[f.encodedHash]

\* C20: whatever the interleaving, a call that has ended returned what it
\* returns when run alone with the salt it drew, and no two calls under way
\* use the same generator.
C20_ConcurrentCallsAsIfAlone ==
    /\ \A self \in Threads :
          pc[self] = "done" =>
              /\ frame[self].out.kind = Alone(self).kind
              /\ frame[self].out.value = Alone(self).value
    /\ \A t1 \in Threads, t2 \in Threads :
          (t1 # t2 /\ frame[t1].generator # 0)
              => frame[t1].generator # frame[t2].generator

C20_Witness ==
    /\ \A self \in Threads : pc[self] = "done"
    /\ frame[1].op = "hash"
    /\ frame[2].op = "hash"
    /\ frame[1].password = frame[2].password
    /\ frame[1].salt # frame[2].salt
    /\ frame[1].generator > frame[2].generator
    /\ Returned(frame[1].out)
    /\ Returned(frame[2].out)
    /\ frame[1].out.value # frame[2].out.value
====
